---- MODULE Spec2Model ----
(***************************************************************************)
(* A model of gsap-offset-path's pure TypeScript offset core               *)
(* (offsetSvgPath and the functions it calls).                             *)
(*                                                                         *)
(* Numbers.  The program computes in IEEE doubles.  The model computes the *)
(* same expressions exactly, over rationals:                               *)
(*   - a number is a record [n, d]: the rational n/d when d > 0, and a     *)
(*     non-finite double when d = 0 (n = 0: NaN, n = 1: +Infinity,         *)
(*     n = -1: -Infinity);                                                 *)
(*   - a unit vector is [x, y, d, zx, zy]: the vector (x/d, y/d), where zx *)
(*     (zy) says that a zero x (y) is the double -0, which Math.atan2      *)
(*     tells from +0;                                                      *)
(*   - angles are whole multiples of pi/48, cosines are taken from a table *)
(*     in millionths.                                                      *)
(* Inputs are chosen so that every edge has a whole length after           *)
(* normalisation (axis-parallel and 3-4-5 edges), which keeps the square   *)
(* roots of norm() exact; rounding to the nearest double is not modelled.  *)
(***************************************************************************)
EXTENDS Integers, Sequences, FiniteSets, TLC

SCALE == 1000

FLATTEN_TOLERANCE == [n |-> 1, d |-> 10]

(***************************************************************************)
(* Characters                                                              *)
(***************************************************************************)
UpperCase ==
  {"A","B","C","D","E","F","G","H","I","J","K","L","M",
   "N","O","P","Q","R","S","T","U","V","W","X","Y","Z"}

LowerCase ==
  {"a","b","c","d","e","f","g","h","i","j","k","l","m",
   "n","o","p","q","r","s","t","u","v","w","x","y","z"}

IsLetter(ch) == ch \in UpperCase \/ ch \in LowerCase

DigitValue ==
  [c \in {"0","1","2","3","4","5","6","7","8","9"} |->
     CASE c = "0" -> 0 [] c = "1" -> 1 [] c = "2" -> 2 [] c = "3" -> 3
       [] c = "4" -> 4 [] c = "5" -> 5 [] c = "6" -> 6 [] c = "7" -> 7
       [] c = "8" -> 8 [] c = "9" -> 9]

IsDigit(ch) == ch \in DOMAIN DigitValue

IsSep(ch) == ch \in {" ", "\t", "\n", "\r", ","}

IsSpace(ch) == ch \in {" ", "\t", "\n", "\r"}

\* src[pos] of the code, 1-based; "" stands for undefined (pos past the end).
CharAt(src, pos) == IF pos >= 1 /\ pos <= Len(src) THEN src[pos] ELSE ""

(***************************************************************************)
(* Numbers                                                                 *)
(***************************************************************************)
NaN == [n |-> 0, d |-> 0]

PosInf == [n |-> 1, d |-> 0]

NegInf == [n |-> -1, d |-> 0]

IsFinite(v) == v.d > 0

Abs(x) == IF x < 0 THEN -x ELSE x

Sign(x) == IF x > 0 THEN 1 ELSE IF x < 0 THEN -1 ELSE 0

RECURSIVE Gcd(_, _)
Gcd(a, b) == IF b = 0 THEN a ELSE Gcd(b, a % b)

RECURSIVE Pow10(_)
Pow10(k) == IF k <= 0 THEN 1 ELSE 10 * Pow10(k - 1)

\* The rational n/d (d > 0) in lowest terms.
Rat(n, d) ==
  LET g == Gcd(Abs(n), d)
  IN  [n |-> n \div g, d |-> d \div g]

Int2Num(k) == [n |-> k, d |-> 1]

RAdd(a, b) ==
  IF ~IsFinite(a) \/ ~IsFinite(b) THEN NaN
  ELSE Rat(a.n * b.d + b.n * a.d, a.d * b.d)

RLess(a, b) == IsFinite(a) /\ IsFinite(b) /\ a.n * b.d < b.n * a.d

\* Math.round of the rational num/den (den > 0): the nearest integer, a tie
\* going up.
RoundDiv(num, den) == (2 * num + den) \div (2 * den)

\* Math.round(x * sc) of svgToPoints, for a number x; the whole part is
\* scaled apart from the fraction.
ScaleRound(x, sc) ==
  IF ~IsFinite(x) THEN NaN
  ELSE Int2Num((x.n \div x.d) * sc + RoundDiv((x.n % x.d) * sc, x.d))

(***************************************************************************)
(* SVG path parser                                                         *)
(***************************************************************************)
RECURSIVE skipSep(_, _)
skipSep(src, pos) ==
  IF pos <= Len(src) /\ IsSep(src[pos]) THEN skipSep(src, pos + 1) ELSE pos

\* The while loops of parseNumber that run over digits.
RECURSIVE SkipDigits(_, _)
SkipDigits(src, pos) ==
  IF pos <= Len(src) /\ IsDigit(src[pos]) THEN SkipDigits(src, pos + 1) ELSE pos

\* The value of the digits src[from .. to-1], read as a decimal numeral.
RECURSIVE DigitsValue(_, _, _)
DigitsValue(src, from, to) ==
  IF to <= from THEN 0
  ELSE 10 * DigitsValue(src, from, to - 1) + DigitValue[src[to - 1]]

\* parseFloat(slice) for the slices parseNumber cuts: the longest prefix that
\* is a decimal literal  [sign] digits [. digits] [e [sign] digits]  with a
\* digit in the mantissa; NaN when there is none.  The operators below follow
\* the literal from left to right, each handing on what it has read.

\* (-1)^neg * mant * 10^(ex - nFrac).
decimal(neg, mant, nFrac, ex) ==
  IF ex >= nFrac THEN Rat((IF neg THEN -mant ELSE mant) * Pow10(ex - nFrac), 1)
  ELSE Rat(IF neg THEN -mant ELSE mant, Pow10(nFrac - ex))

\* The literal with nInt digits of value int before the point and nFrac
\* digits of value frac after it.
floatParts(neg, nInt, nFrac, int, frac, ex) ==
  IF nInt = 0 /\ nFrac = 0 THEN NaN
  ELSE decimal(neg, int * Pow10(nFrac) + frac, nFrac, ex)

exponentDigits(s, eNeg, e1) ==
  (IF eNeg THEN -1 ELSE 1) * DigitsValue(s, e1, SkipDigits(s, e1))

\* The exponent read at position p; 0 when there is none, or no digit in it.
exponent(s, p) ==
  IF CharAt(s, p) \in {"e", "E"}
  THEN exponentDigits(s, CharAt(s, p + 1) = "-",
                      IF CharAt(s, p + 1) \in {"-", "+"} THEN p + 2 ELSE p + 1)
  ELSE 0

floatAfterFrac(s, i1, intEnd, fracEnd) ==
  floatParts(CharAt(s, 1) = "-", intEnd - i1,
             IF fracEnd > intEnd THEN fracEnd - (intEnd + 1) ELSE 0,
             DigitsValue(s, i1, intEnd), DigitsValue(s, intEnd + 1, fracEnd),
             exponent(s, fracEnd))

floatAfterInt(s, i1, intEnd) ==
  floatAfterFrac(s, i1, intEnd,
                 IF CharAt(s, intEnd) = "." THEN SkipDigits(s, intEnd + 1)
                 ELSE intEnd)

parseFloat(s) ==
  floatAfterInt(s, IF CharAt(s, 1) \in {"-", "+"} THEN 2 ELSE 1,
                SkipDigits(s, IF CharAt(s, 1) \in {"-", "+"} THEN 2 ELSE 1))

\* parseNumber (lines 51-66): [v |-> the number, pos |-> the position after
\* it].  start is the position after skipSep, p2 after the sign and the first
\* digits, p3 after the fraction, p4 after the exponent.
numberEnd(src, start, p4) ==
  [v |-> parseFloat(SubSeq(src, start, p4 - 1)), pos |-> p4]

numberFrac(src, start, p3) ==
  numberEnd(src, start,
            IF CharAt(src, p3) \in {"e", "E"}
            THEN SkipDigits(src, IF CharAt(src, p3 + 1) \in {"-", "+"}
                                 THEN p3 + 2 ELSE p3 + 1)
            ELSE p3)

numberInt(src, start, p2) ==
  numberFrac(src, start,
             IF CharAt(src, p2) = "." THEN SkipDigits(src, p2 + 1) ELSE p2)

numberFrom(src, start) ==
  numberInt(src, start,
            SkipDigits(src, IF CharAt(src, start) \in {"-", "+"}
                            THEN start + 1 ELSE start))

parseNumber(src, pos0) == numberFrom(src, skipSep(src, pos0))

\* String.prototype.trim: white space off both ends (a comma is kept).
RECURSIVE TrimLeft(_)
TrimLeft(s) ==
  IF Len(s) > 0 /\ IsSpace(s[1]) THEN TrimLeft(Tail(s)) ELSE s

RECURSIVE TrimRight(_)
TrimRight(s) ==
  IF Len(s) > 0 /\ IsSpace(s[Len(s)])
  THEN TrimRight(SubSeq(s, 1, Len(s) - 1)) ELSE s

trim(s) == TrimRight(TrimLeft(s))

Segment(type, pts) == [type |-> type, pts |-> pts]

\* A fresh Subpath that starts with a MoveTo at pt.
Subpath(pt) == [segs |-> << Segment("M", <<pt>>) >>, closed |-> FALSE]

\* One parseNumber appended to acc = [vs |-> the numbers read, pos |-> the
\* position], followed by skipSep unless it is the last of its command.
readNumber(src, acc, r, last) ==
  [vs |-> Append(acc.vs, r.v),
   pos |-> IF last THEN r.pos ELSE skipSep(src, r.pos)]

\* k more numbers read one after the other.
RECURSIVE parseNumbers(_, _, _)
parseNumbers(src, acc, k) ==
  IF k = 0 THEN acc
  ELSE parseNumbers(src, readNumber(src, acc, parseNumber(src, acc.pos), k = 1),
                    k - 1)

operands(src, st, k) == parseNumbers(src, [vs |-> << >>, pos |-> st.pos], k)

\* The parser's local variables: pos (1-based), cmd, subpaths, current (the
\* index in subpaths of the Subpath `current` refers to, 0 for null), cx, cy,
\* and brk, set when the loop was left by a break.
ParserInit ==
  [pos |-> 1, cmd |-> "", subpaths |-> << >>, current |-> 0,
   cx |-> Int2Num(0), cy |-> Int2Num(0), brk |-> FALSE]

\* `current.segs.push(seg)` where a segment with no subpath open is dropped
\* and none is opened for it.
PushSeg_unopened(st, movePt, seg) ==
  IF st.current = 0 THEN st
  ELSE [st EXCEPT !.subpaths[st.current].segs = Append(@, seg)]

\* `if (!current) { current = ...; subpaths.push(current); }` and
\* `current.segs.push(seg)`.
PushSeg(st, movePt, seg) ==
  IF st.current = 0
  THEN [st EXCEPT !.subpaths = Append(@, [Subpath(movePt) EXCEPT
                                            !.segs = Append(@, seg)]),
                  !.current  = Len(st.subpaths) + 1]
  ELSE [st EXCEPT !.subpaths[st.current].segs = Append(@, seg)]

\* `cmd === 'L' ? x : cx + x` and its like: v for an upper-case command,
\* c + v for a lower-case one.
absolute(st, v, c) == IF st.cmd \in LowerCase THEN RAdd(c, v) ELSE v

\* Lines 117-126 once the operands are read, and the skipSep of line 171.
moveToAt(src, st, ax, ay, p) ==
  [st EXCEPT !.subpaths = Append(@, Subpath(<<ax, ay>>)),
             !.current  = Len(st.subpaths) + 1,
             !.cx = ax, !.cy = ay,
             !.cmd = IF st.cmd = "M" THEN "L" ELSE "l",
             !.pos = skipSep(src, p)]

\* Lines 127-145 once the operands are read (L, H and V differ in which of
\* ax, ay is the current position), and the skipSep of line 171.
lineToAt(src, st, ax, ay, p) ==
  [PushSeg(st, <<ax, ay>>, Segment("L", << <<ax, ay>> >>))
     EXCEPT !.cx = ax, !.cy = ay, !.pos = skipSep(src, p)]

\* Lines 146-165 once the operands are read: seg is the C or Q segment ending
\* at `to`.
curveToAt(src, st, seg, to, p) ==
  [PushSeg(st, <<st.cx, st.cy>>, seg)
     EXCEPT !.cx = to[1], !.cy = to[2], !.pos = skipSep(src, p)]

moveTo(src, st, r) ==
  moveToAt(src, st, absolute(st, r.vs[1], st.cx), absolute(st, r.vs[2], st.cy),
           r.pos)

lineTo(src, st, r) ==
  lineToAt(src, st, absolute(st, r.vs[1], st.cx), absolute(st, r.vs[2], st.cy),
           r.pos)

horizontalTo(src, st, r) ==
  lineToAt(src, st, absolute(st, r.vs[1], st.cx), st.cy, r.pos)

verticalTo(src, st, r) ==
  lineToAt(src, st, st.cx, absolute(st, r.vs[1], st.cy), r.pos)

cubicTo(src, st, r) ==
  curveToAt(src, st,
            Segment("C",
              << <<absolute(st, r.vs[1], st.cx), absolute(st, r.vs[2], st.cy)>>,
                 <<absolute(st, r.vs[3], st.cx), absolute(st, r.vs[4], st.cy)>>,
                 <<absolute(st, r.vs[5], st.cx), absolute(st, r.vs[6], st.cy)>> >>),
            <<absolute(st, r.vs[5], st.cx), absolute(st, r.vs[6], st.cy)>>,
            r.pos)

quadraticTo(src, st, r) ==
  curveToAt(src, st,
            Segment("Q",
              << <<absolute(st, r.vs[1], st.cx), absolute(st, r.vs[2], st.cy)>>,
                 <<absolute(st, r.vs[3], st.cx), absolute(st, r.vs[4], st.cy)>> >>),
            <<absolute(st, r.vs[3], st.cx), absolute(st, r.vs[4], st.cy)>>,
            r.pos)

\* The command branches of parseSvgPath's loop body (lines 117-172), entered
\* with cmd a command other than Z and pos at its operands.
parseCommand(src, st) ==
  CASE st.cmd \in {"M", "m"} -> moveTo(src, st, operands(src, st, 2))
    [] st.cmd \in {"L", "l"} -> lineTo(src, st, operands(src, st, 2))
    [] st.cmd \in {"H", "h"} -> horizontalTo(src, st, operands(src, st, 1))
    [] st.cmd \in {"V", "v"} -> verticalTo(src, st, operands(src, st, 1))
    [] st.cmd \in {"C", "c"} -> cubicTo(src, st, operands(src, st, 6))
    [] st.cmd \in {"Q", "q"} -> quadraticTo(src, st, operands(src, st, 4))
    [] OTHER -> [st EXCEPT !.pos = skipSep(src, st.pos + 1)]

\* Lines 110-114: the peek at the next character.
peek(src, st) ==
  IF st.pos <= Len(src) /\ IsLetter(CharAt(src, st.pos)) THEN st
  ELSE parseCommand(src, st)

\* Lines 102-107, after the skipSep of line 101.
afterGap(src, st) ==
  IF st.pos > Len(src) THEN [st EXCEPT !.brk = TRUE]
  ELSE IF IsLetter(CharAt(src, st.pos)) THEN st
  ELSE IF st.cmd = "" THEN [st EXCEPT !.brk = TRUE]
  ELSE peek(src, st)

\* Lines 93-173, for ch the character the iteration began at.
afterLetter(src, ch, st) ==
  IF st.cmd \in {"Z", "z"}
  THEN [st EXCEPT !.subpaths = IF st.current = 0 THEN @
                                ELSE [@ EXCEPT ![st.current].closed = TRUE],
                  !.cmd = "",
                  !.pos = skipSep(src, st.pos)]
  ELSE IF st.cmd = "" \/ IsSep(ch)
  THEN afterGap(src, [st EXCEPT !.pos = skipSep(src, st.pos)])
  ELSE peek(src, st)

\* One iteration of the while loop of parseSvgPath (lines 87-173).
parseIteration(src, st) ==
  afterLetter(src, src[st.pos],
              IF IsLetter(src[st.pos])
              THEN [st EXCEPT !.cmd = src[st.pos],
                              !.pos = skipSep(src, st.pos + 1)]
              ELSE st)

\* The loop of parseSvgPath goes on while this holds.
parseRunning(src, st) == st.pos <= Len(src) /\ ~st.brk

(***************************************************************************)
(* Bezier flattening                                                       *)
(***************************************************************************)
\* Whole numbers too large for one machine word of the model checker: the pair
\* [hi, lo] is hi * 10^6 + lo, with 0 <= lo < 10^6.
WNorm(hi, lo) == [hi |-> hi + (lo \div 1000000), lo |-> lo % 1000000]

WMul(a, b) ==
  LET ah  == a \div 1000
      al  == a % 1000
      bh  == b \div 1000
      bl  == b % 1000
      mid == ah * bl + al * bh
  IN  WNorm(ah * bh + (mid \div 1000), (mid % 1000) * 1000 + al * bl)

WAdd(u, v) == WNorm(u.hi + v.hi, u.lo + v.lo)

WSign(u) == IF u.hi # 0 THEN Sign(u.hi) ELSE Sign(u.lo)

\* u <= v for two such numbers that are not negative.
WLeq(u, v) == u.hi < v.hi \/ (u.hi = v.hi /\ u.lo <= v.lo)

RSub(a, b) == RAdd(a, [b EXCEPT !.n = -b.n])

RMul(a, b) ==
  IF ~IsFinite(a) \/ ~IsFinite(b) THEN NaN
  ELSE Rat(a.n * b.n, a.d * b.d)

Lcm(a, b) == (a \div Gcd(a, b)) * b

\* The flatness test with four times the tolerance.
IsFlat_loose(ux, uy, vx, vy, den, tol) ==
  LET long(c) == Abs(c) * tol.d > 16 * tol.n * den
      sq(c)   == WMul(Abs(c) * tol.d, Abs(c) * tol.d)
      bound   == WMul(16 * tol.n * den, 16 * tol.n * den)
  IN  /\ ~long(ux) /\ ~long(uy) /\ ~long(vx) /\ ~long(vy)
      /\ WLeq(WAdd(sq(ux), sq(uy)), bound)
      /\ WLeq(WAdd(sq(vx), sq(vy)), bound)

\* The flatness test of flattenCubic (lines 184-188) on the whole vectors
\* (ux, uy) and (vx, vy) over the denominator den:
\*   max(ux^2 + uy^2, vx^2 + vy^2) / den^2 <= 16 * tol^2,
\* compared as (ux * tol.d)^2 + (uy * tol.d)^2 <= (4 * tol.n * den)^2.  A
\* component longer than 4 * tol decides the test before anything is squared.
IsFlat(ux, uy, vx, vy, den, tol) ==
  LET long(c) == Abs(c) * tol.d > 4 * tol.n * den
      sq(c)   == WMul(Abs(c) * tol.d, Abs(c) * tol.d)
      bound   == WMul(4 * tol.n * den, 4 * tol.n * den)
  IN  /\ ~long(ux) /\ ~long(uy) /\ ~long(vx) /\ ~long(vy)
      /\ WLeq(WAdd(sq(ux), sq(uy)), bound)
      /\ WLeq(WAdd(sq(vx), sq(vy)), bound)

\* flattenCubic on control points given as whole vectors over the common
\* denominator den (lines 182-201): the points appended to out.
RECURSIVE flattenCubicOver(_, _, _, _, _, _)
flattenCubicOver(p0, p1, p2, p3, den, tol) ==
  LET ux == 3 * p1[1] - 2 * p0[1] - p3[1]
      uy == 3 * p1[2] - 2 * p0[2] - p3[2]
      vx == 3 * p2[1] - 2 * p3[1] - p0[1]
      vy == 3 * p2[2] - 2 * p3[2] - p0[2]
  IN  IF IsFlat(ux, uy, vx, vy, den, tol)
      THEN << <<Rat(p3[1], den), Rat(p3[2], den)>> >>
      ELSE \* the midpoints, as whole vectors over 8 * den
        LET q0   == <<8 * p0[1], 8 * p0[2]>>
            q3   == <<8 * p3[1], 8 * p3[2]>>
            m01  == <<4 * (p0[1] + p1[1]), 4 * (p0[2] + p1[2])>>
            m12  == <<4 * (p1[1] + p2[1]), 4 * (p1[2] + p2[2])>>
            m23  == <<4 * (p2[1] + p3[1]), 4 * (p2[2] + p3[2])>>
            m012 == <<(m01[1] + m12[1]) \div 2, (m01[2] + m12[2]) \div 2>>
            m123 == <<(m12[1] + m23[1]) \div 2, (m12[2] + m23[2]) \div 2>>
            mid  == <<(m012[1] + m123[1]) \div 2, (m012[2] + m123[2]) \div 2>>
        IN  flattenCubicOver(q0, m01, m012, mid, 8 * den, tol)
              \o flattenCubicOver(mid, m123, m23, q3, 8 * den, tol)

\* flattenCubic: [ok |-> TRUE, pts |-> the points appended to out], or
\* [ok |-> FALSE] when a control point is NaN: the flatness test is then false
\* at every level, and the recursion ends in a RangeError (stack overflow).
flattenCubic(p0, p1, p2, p3, tol) ==
  LET all == <<p0[1], p0[2], p1[1], p1[2], p2[1], p2[2], p3[1], p3[2]>>
  IN  IF \E i \in 1..8 : ~IsFinite(all[i]) THEN [ok |-> FALSE, pts |-> << >>]
      ELSE
        LET den == Lcm(Lcm(Lcm(p0[1].d, p0[2].d), Lcm(p1[1].d, p1[2].d)),
                       Lcm(Lcm(p2[1].d, p2[2].d), Lcm(p3[1].d, p3[2].d)))
            W(p) == <<p[1].n * (den \div p[1].d), p[2].n * (den \div p[2].d)>>
        IN  [ok |-> TRUE,
             pts |-> flattenCubicOver(W(p0), W(p1), W(p2), W(p3), den, tol)]

flattenQuadratic(p0, p1, p2, tol) ==
  LET twoThirds == [n |-> 2, d |-> 3]
      c1 == <<RAdd(p0[1], RMul(twoThirds, RSub(p1[1], p0[1]))),
              RAdd(p0[2], RMul(twoThirds, RSub(p1[2], p0[2])))>>
      c2 == <<RAdd(p2[1], RMul(twoThirds, RSub(p1[1], p2[1]))),
              RAdd(p2[2], RMul(twoThirds, RSub(p1[2], p2[2])))>>
  IN  flattenCubic(p0, c1, c2, p2, tol)

(***************************************************************************)
(* SVG path -> integer points                                              *)
(***************************************************************************)
\* The loop over sp.segs of svgToPoints (lines 221-238), from segment i on,
\* with cur the current point and acc the points so far:
\* [ok |-> FALSE] when a flattener call overflows the stack.
RECURSIVE floatPoints(_, _, _, _, _)
RECURSIVE afterCurve(_, _, _, _, _)
floatPoints(segs, i, cur, acc, tol) ==
  IF i > Len(segs) THEN [ok |-> TRUE, pts |-> acc]
  ELSE
    CASE segs[i].type \in {"M", "L"} ->
           floatPoints(segs, i + 1, segs[i].pts[1], Append(acc, segs[i].pts[1]),
                       tol)
      [] segs[i].type = "C" ->
           afterCurve(segs, i,
                      flattenCubic(cur, segs[i].pts[1], segs[i].pts[2],
                                   segs[i].pts[3], tol),
                      acc, tol)
      [] segs[i].type = "Q" ->
           afterCurve(segs, i,
                      flattenQuadratic(cur, segs[i].pts[1], segs[i].pts[2], tol),
                      acc, tol)

\* The loop goes on after segment i, a curve flattened to f, whose last
\* control point is the new current point.
afterCurve(segs, i, f, acc, tol) ==
  IF ~f.ok THEN [ok |-> FALSE, pts |-> << >>]
  ELSE floatPoints(segs, i + 1, segs[i].pts[Len(segs[i].pts)], acc \o f.pts, tol)

HasNaN(pts) == \E i \in 1..Len(pts) : ~IsFinite(pts[i][1]) \/ ~IsFinite(pts[i][2])

\* The shoelace sum of svgToPoints (lines 246-250) over whole points, from
\* index i on.
RECURSIVE shoelaceFrom(_, _)
shoelaceFrom(pts, i) ==
  IF i > Len(pts) THEN WNorm(0, 0)
  ELSE LET j == (i % Len(pts)) + 1
       IN  WAdd(WMul(pts[j][1].n - pts[i][1].n, pts[j][2].n + pts[i][2].n),
                shoelaceFrom(pts, i + 1))

\* The sign of `area` (lines 246-250): 1, 0, -1, or 2 when the sum is NaN.
areaSign(pts) == IF HasNaN(pts) THEN 2 ELSE WSign(shoelaceFrom(pts, 1))

Reverse(s) == [i \in 1..Len(s) |-> s[Len(s) + 1 - i]]

\* svgToPoints without the reversal of line 251.
windingFix_never(pts) == pts

\* `if (area > 0) pts.reverse()` (line 251).
windingFix(pts) == IF areaSign(pts) = 1 THEN Reverse(pts) ELSE pts

\* Lines 243-253 of svgToPoints: scale to integers, then fix the winding.
scalePoints(floatPts, sc) ==
  windingFix([i \in 1..Len(floatPts) |->
                <<ScaleRound(floatPts[i][1], sc), ScaleRound(floatPts[i][2], sc)>>])

\* Lines 239-253 for the points f the loop gave.
scaledPoints(f, sc) ==
  IF ~f.ok THEN [status |-> "RangeError", pts |-> << >>]
  ELSE IF Len(f.pts) < 3 THEN [status |-> "null", pts |-> << >>]
  ELSE [status |-> "ok", pts |-> scalePoints(f.pts, sc)]

\* svgToPoints after the parse (lines 217-253): status "null" for a null
\* result, "RangeError" when the flattener overflowed the stack, else "ok"
\* with the points.
svgToPoints(subpaths, sc, tol) ==
  IF Len(subpaths) = 0 THEN [status |-> "null", pts |-> << >>]
  ELSE scaledPoints(floatPoints(subpaths[1].segs, 1, <<Int2Num(0), Int2Num(0)>>,
                                << >>, tol), sc)

(***************************************************************************)
(* Bounding box and serializer                                             *)
(***************************************************************************)
\* bbox (lines 262-271) along one axis k (1: x, 2: y): a NaN coordinate fails
\* both comparisons and is skipped; with no number at all the box keeps its
\* initial +Infinity / -Infinity.
bboxMin(pts, k) ==
  LET vals == {pts[i][k].n : i \in {j \in 1..Len(pts) : IsFinite(pts[j][k])}}
  IN  IF vals = {} THEN PosInf
      ELSE Int2Num(CHOOSE v \in vals : \A w \in vals : v <= w)

bboxMax(pts, k) ==
  LET vals == {pts[i][k].n : i \in {j \in 1..Len(pts) : IsFinite(pts[j][k])}}
  IN  IF vals = {} THEN NegInf
      ELSE Int2Num(CHOOSE v \in vals : \A w \in vals : v >= w)

bbox(pts) ==
  [minX |-> bboxMin(pts, 1), minY |-> bboxMin(pts, 2),
   maxX |-> bboxMax(pts, 1), maxY |-> bboxMax(pts, 2)]

\* The decimal numeral of a natural number, as characters.
RECURSIVE NatChars(_)
NatChars(k) ==
  LET digit == <<"0","1","2","3","4","5","6","7","8","9">>[(k % 10) + 1]
  IN  IF k < 10 THEN <<digit>> ELSE Append(NatChars(k \div 10), digit)

\* (p / sc).toFixed(2) for a whole p and sc = 1000 (lines 279, 281): the
\* magnitude rounded to hundredths, a tie going away from zero, and a "-" for
\* every negative p (so -4 gives "-0.00").
toFixed2(p, sc) ==
  IF ~IsFinite(p) THEN <<"N", "a", "N">>
  ELSE LET h == RoundDiv(Abs(p.n) * 100, sc)
       IN  (IF p.n < 0 THEN <<"-">> ELSE << >>)
             \o NatChars(h \div 100)
             \o <<".">> \o NatChars((h % 100) \div 10) \o NatChars(h % 10)

RECURSIVE pointsToSvgFrom(_, _, _)
pointsToSvgFrom(pts, i, sc) ==
  IF i > Len(pts) THEN <<" ", "Z">>
  ELSE <<" ", "L", " ">> \o toFixed2(pts[i][1], sc) \o <<" ">>
         \o toFixed2(pts[i][2], sc) \o pointsToSvgFrom(pts, i + 1, sc)

pointsToSvg(pts, sc) ==
  IF Len(pts) = 0 THEN << >>
  ELSE <<"M", " ">> \o toFixed2(pts[1][1], sc) \o <<" ">>
         \o toFixed2(pts[1][2], sc) \o pointsToSvgFrom(pts, 2, sc)

(***************************************************************************)
(* Polygon offset                                                          *)
(***************************************************************************)
JoinType_Square == 0
JoinType_Bevel == 1
JoinType_Round == 2
JoinType_Miter == 3

EndType_Polygon == 0
EndType_Joined == 1
EndType_Butt == 2
EndType_Square == 3
EndType_Round == 4

ZeroVec == [x |-> 0, y |-> 0, d |-> 1, zx |-> FALSE, zy |-> FALSE]

\* norm(sub(b, a)) for whole points a, b (lines 16, 21-25): the unit vector
\* from a to b, [0, 0] when the points coincide or a coordinate is NaN (the
\* comparison l > 1e-10 is then false).  The edge is reduced by its gcd first;
\* its length is the whole d with d * d = x * x + y * y.
norm(a, b) ==
  IF HasNaN(<<a, b>>) \/ (a[1].n = b[1].n /\ a[2].n = b[2].n) THEN ZeroVec
  ELSE LET dx == b[1].n - a[1].n
           dy == b[2].n - a[2].n
           g  == Gcd(Abs(dx), Abs(dy))
           rx == dx \div g
           ry == dy \div g
       IN  [x |-> rx, y |-> ry,
            d |-> CHOOSE l \in 1..(Abs(rx) + Abs(ry)) : l * l = rx * rx + ry * ry,
            zx |-> FALSE, zy |-> FALSE]

\* Whether norm() is exact for every edge of pts, the wrap-around edge
\* included.
ExactEdges(pts) ==
  \A i \in 1..Len(pts) :
    LET a  == pts[i]
        b  == pts[(i % Len(pts)) + 1]
        dx == b[1].n - a[1].n
        dy == b[2].n - a[2].n
        g  == Gcd(Abs(dx), Abs(dy))
        rx == dx \div g
        ry == dy \div g
    IN  IF HasNaN(<<a, b>>) \/ (dx = 0 /\ dy = 0) THEN TRUE
        ELSE \E l \in 1..(Abs(rx) + Abs(ry)) : l * l = rx * rx + ry * ry

\* leftNormal(e) = [-e[1], e[0]] (line 27); negating +0 gives -0.
leftNormal(e) ==
  [x |-> -e.y, y |-> e.x, d |-> e.d,
   zx |-> (e.y = 0 /\ ~e.zy), zy |-> (e.x = 0 /\ e.zx)]

\* [-v[0], -v[1]] (lines 403, 406, 422).
Negated(v) ==
  [x |-> -v.x, y |-> -v.y, d |-> v.d,
   zx |-> (v.x = 0 /\ ~v.zx), zy |-> (v.y = 0 /\ ~v.zy)]

\* cross(a, b) * a.d * b.d and dot(a, b) * a.d * b.d (lines 19-20).
crossNum(a, b) == a.x * b.y - a.y * b.x

dotNum(a, b) == a.x * b.x + a.y * b.y

\* Math.round(c + num / den) for a whole coordinate c (NaN stays NaN).
Displace(c, num, den) ==
  IF ~IsFinite(c) THEN NaN
  ELSE IF den < 0 THEN Int2Num(c.n + RoundDiv(-num, -den))
  ELSE Int2Num(c.n + RoundDiv(num, den))

\* [Math.round(curr[0] + n[0] * offsetAmt), Math.round(curr[1] + n[1] * offsetAmt)]
\* for a unit vector n (lines 360, 384, 385).
alongNormal(curr, n, off) ==
  <<Displace(curr[1], n.x * off.n, n.d * off.d),
    Displace(curr[2], n.y * off.n, n.d * off.d)>>

\* num * 10^12 < den, for whole num >= 0 and den >= 0.
TinySq(num, den) == num <= ((den - 1) \div 1000000) \div 1000000

\* The bisector construction of lines 356-358 and 369-370 for unit vectors e1
\* and e2 with normals outN1, outN2:  s = (outN1 + outN2) * e1.d * e2.d is a
\* whole vector, bisect = s / |s|, and sinHalf = k / (e1.d * |s|) with
\* k = cross(e1, s).  norm() gives bisect = [0, 0] when s = 0.
bisectorOf(e1, sx, sy) ==
  [sx |-> sx, sy |-> sy, k |-> e1.x * sy - e1.y * sx, ll |-> sx * sx + sy * sy]

bisector(e1, e2) ==
  bisectorOf(e1, leftNormal(e1).x * e2.d + leftNormal(e2).x * e1.d,
                 leftNormal(e1).y * e2.d + leftNormal(e2).y * e1.d)

\* Math.abs(sinHalf) < 1e-6 (line 358), and its opposite
\* Math.abs(sinHalf) > 1e-6 (line 371): sinHalf^2 = k^2 / (d^2 * ll).
sinHalfTiny(b, d) == b.ll = 0 \/ TinySq(b.k * b.k, d * d * b.ll)

\* [Math.round(curr[0] + bisect[0] * dist), Math.round(curr[1] + bisect[1] * dist)]
\* with dist = offsetAmt / sinHalf (lines 362-363, 372-374):
\* bisect * dist = s * offsetAmt * e1.d / k.
bisectorPoint(curr, b, d, off) ==
  <<Displace(curr[1], b.sx * off.n * d, b.k * off.d),
    Displace(curr[2], b.sy * off.n * d, b.k * off.d)>>

\* Math.abs(dist) <= miterLimit * Math.abs(offsetAmt) (line 373), that is
\* 1 / |sinHalf| <= miterLimit:  d^2 * ll / k^2 <= miterLimit^2.
withinMiterLimit(b, d, miterLimit) ==
  /\ IsFinite(miterLimit) /\ miterLimit.n >= 0
  /\ d * d * b.ll * miterLimit.d * miterLimit.d
       <= miterLimit.n * miterLimit.n * b.k * b.k

\* cos(j * pi / 48) in millionths, j = 0 .. 95.
CosTable ==
  <<
     1000000, 997859, 991445, 980785, 965926, 946930, 923880, 896873,
     866025, 831470, 793353, 751840, 707107, 659346, 608761, 555570,
     500000, 442289, 382683, 321439, 258819, 195090, 130526, 65403,
     0, -65403, -130526, -195090, -258819, -321439, -382683, -442289,
     -500000, -555570, -608761, -659346, -707107, -751840, -793353, -831470,
     -866025, -896873, -923880, -946930, -965926, -980785, -991445, -997859,
     -1000000, -997859, -991445, -980785, -965926, -946930, -923880, -896873,
     -866025, -831470, -793353, -751840, -707107, -659346, -608761, -555570,
     -500000, -442289, -382683, -321439, -258819, -195090, -130526, -65403,
     0, 65403, 130526, 195090, 258819, 321439, 382683, 442289,
     500000, 555570, 608761, 659346, 707107, 751840, 793353, 831470,
     866025, 896873, 923880, 946930, 965926, 980785, 991445, 997859
  >>

cosOf(a) == CosTable[(a % 96) + 1]

sinOf(a) == cosOf(a - 24)

\* Math.atan2(n[1], n[0]) in units of pi/48, for a vector along an axis or
\* [0, 0]; the sign of a zero decides between 0, pi and -pi.
atan2(n) ==
  CASE n.y > 0 /\ n.x = 0 -> 24
    [] n.y < 0 /\ n.x = 0 -> -24
    [] n.y = 0 /\ n.x > 0 -> 0
    [] n.y = 0 /\ n.x < 0 -> IF n.zy THEN -48 ELSE 48
    [] n.y = 0 /\ n.x = 0 -> IF ~n.zx THEN 0 ELSE IF n.zy THEN -48 ELSE 48

AxisParallel(n) == n.x = 0 \/ n.y = 0

\* 1 - rho <= cos(a * pi / 48) for 0 <= rho <= 2, as rho * 10^6 against the
\* table; the quotient is taken three digits at a time.
cosReached(rho, a) ==
  LET r0 == rho.n % rho.d
      q1 == (r0 * 1000) \div rho.d
      r1 == (r0 * 1000) % rho.d
      q2 == (r1 * 1000) \div rho.d
  IN  (rho.n \div rho.d) * 1000000 + q1 * 1000 + q2 >= 1000000 - cosOf(a)

\* Math.max(2, Math.ceil(Math.abs(da) / (2 * Math.acos(1 - arcTolerance / r))))
\* (line 306) for |da| = absDa * pi / 48 and r > 0:
\*   -1 for NaN (arcTolerance NaN, negative or above 2 * r, or 0 / 0),
\*   -2 for Infinity (arcTolerance = 0 and da # 0),
\*   else the least k >= 2 with  1 - arcTolerance / r <= cos(|da| / (2 k)).
stepsFor(absDa, rho) ==
  IF rho.n < 0 \/ rho.n > 2 * rho.d THEN -1
  ELSE IF rho.n = 0 THEN (IF absDa = 0 THEN -1 ELSE -2)
  ELSE CHOOSE k \in 2..4 :
         /\ absDa % (2 * k) = 0
         /\ cosReached(rho, absDa \div (2 * k))
         /\ \A j \in 2..(k - 1) :
              absDa % (2 * j) = 0 /\ ~cosReached(rho, absDa \div (2 * j))

arcSteps(absDa, arcTolerance, r) ==
  IF ~IsFinite(arcTolerance) THEN -1
  ELSE stepsFor(absDa, Rat(arcTolerance.n * r.d, arcTolerance.d * r.n))

\* Math.round(c + t * offsetAmt) for t in millionths (line 311); the product
\* is taken in two halves to stay within the model checker's machine word.
arcCoord(c, t, off) ==
  IF ~IsFinite(c) THEN NaN
  ELSE
    LET bh  == off.n \div 1000
        bl  == off.n % 1000
        t2  == t * bl
        w   == t * bh + (t2 \div 1000)
        den == 1000 * off.d
    IN  Int2Num(c.n + ((2 * w + den + ((2 * (t2 % 1000)) \div 1000)) \div (2 * den)))

\* The loop of addRoundJoin (lines 309-312) for `steps` steps of da / steps
\* from the angle a1.
arcPoints(cx, cy, a1, da, offsetAmt, steps) ==
  IF steps = -2 THEN [ok |-> FALSE, pts |-> << >>]
  ELSE IF steps = -1 THEN [ok |-> TRUE, pts |-> << >>]
  ELSE [ok |-> TRUE,
        pts |-> [i \in 1..(steps + 1) |->
                   <<arcCoord(cx, cosOf(a1 + (da * (i - 1)) \div steps), offsetAmt),
                     arcCoord(cy, sinOf(a1 + (da * (i - 1)) \div steps), offsetAmt)>>]]

\* Lines 305-312 for the angles a1 and da.
arcFrom(cx, cy, a1, da, offsetAmt, arcTolerance) ==
  arcPoints(cx, cy, a1, da, offsetAmt,
            arcSteps(Abs(da), arcTolerance, [offsetAmt EXCEPT !.n = Abs(@)]))

\* The normalisation of da to [-pi, pi] (lines 302-303).
normalized(da) ==
  IF da > 48 THEN da - 96 ELSE IF da < -48 THEN da + 96 ELSE da

\* addRoundJoin (lines 290-313): [ok |-> TRUE, pts |-> the points pushed], or
\* [ok |-> FALSE] when steps is Infinity and the loop never ends.
addRoundJoin(cx, cy, n1, n2, offsetAmt, arcTolerance) ==
  arcFrom(cx, cy, atan2(n1), normalized(atan2(n2) - atan2(n1)), offsetAmt,
          arcTolerance)

\* Math.abs(cr) < 1e-6 for cr = cross(e1, e2) (line 354).
crossTiny(e1, e2) == Abs(crossNum(e1, e2)) * 1000000 < e1.d * e2.d

\* Math.abs(sinHalf) > 1e-6 (line 371).
sinHalfAbove(b, d) ==
  b.ll > 0 /\ b.k * b.k > ((d * d * b.ll) \div 1000000) \div 1000000

\* The two points of a Bevel or Square join (lines 384-385).
bevelJoin(curr, e1, e2, offsetAmt) ==
  [ok |-> TRUE,
   pts |-> <<alongNormal(curr, leftNormal(e1), offsetAmt),
             alongNormal(curr, leftNormal(e2), offsetAmt)>>]

\* The Miter join without the test of the limit at line 373.
miterJoin_sharp(curr, e1, e2, b, offsetAmt, miterLimit) ==
  IF sinHalfAbove(b, e1.d)
  THEN [ok |-> TRUE, pts |-> <<bisectorPoint(curr, b, e1.d, offsetAmt)>>]
  ELSE bevelJoin(curr, e1, e2, offsetAmt)

\* The Miter join (lines 368-378) for the bisector b, falling through to the
\* Bevel case.
miterJoin(curr, e1, e2, b, offsetAmt, miterLimit) ==
  IF sinHalfAbove(b, e1.d) /\ withinMiterLimit(b, e1.d, miterLimit)
  THEN [ok |-> TRUE, pts |-> <<bisectorPoint(curr, b, e1.d, offsetAmt)>>]
  ELSE bevelJoin(curr, e1, e2, offsetAmt)

\* The concave or nearly parallel corner pushing the first bevel point as
\* well.
bisectorJoin_pair(curr, e1, b, offsetAmt) ==
  [ok |-> TRUE,
   pts |-> << alongNormal(curr, leftNormal(e1), offsetAmt),
              IF sinHalfTiny(b, e1.d)
              THEN alongNormal(curr, leftNormal(e1), offsetAmt)
              ELSE bisectorPoint(curr, b, e1.d, offsetAmt) >>]

\* The concave or nearly parallel corner (lines 355-365) for the bisector b.
bisectorJoin(curr, e1, b, offsetAmt) ==
  [ok |-> TRUE,
   pts |-> << IF sinHalfTiny(b, e1.d)
              THEN alongNormal(curr, leftNormal(e1), offsetAmt)
              ELSE bisectorPoint(curr, b, e1.d, offsetAmt) >>]

\* cr * offsetDir > 0 (lines 345, 351-352).
isConvex(e1, e2, offsetAmt) ==
  crossNum(e1, e2) * (IF offsetAmt.n > 0 THEN 1 ELSE -1) > 0

\* Lines 345-393 for the edge vectors e1 and e2 at curr.
vertexJoin(curr, e1, e2, offsetAmt, joinType, miterLimit, arcTolerance) ==
  IF ~isConvex(e1, e2, offsetAmt) \/ crossTiny(e1, e2)
  THEN bisectorJoin(curr, e1, bisector(e1, e2), offsetAmt)
  ELSE CASE joinType = JoinType_Miter ->
              miterJoin(curr, e1, e2, bisector(e1, e2), offsetAmt, miterLimit)
         [] joinType \in {JoinType_Bevel, JoinType_Square} ->
              bevelJoin(curr, e1, e2, offsetAmt)
         [] OTHER ->
              addRoundJoin(curr[1], curr[2], leftNormal(e1), leftNormal(e2),
                           offsetAmt, arcTolerance)

\* The body of offsetPolygon's loop for one vertex (lines 332-394):
\* [ok |-> TRUE, pts |-> the points pushed], or [ok |-> FALSE] when
\* addRoundJoin never returns.
offsetVertex(prev, curr, next, offsetAmt, joinType, miterLimit, arcTolerance) ==
  vertexJoin(curr, norm(prev, curr), norm(curr, next), offsetAmt, joinType,
             miterLimit, arcTolerance)

isOpenEnd(endType) == endType \in {EndType_Butt, EndType_Square, EndType_Round}

\* The points pushed by u, then those pushed by v; nothing once a call never
\* returns.
pushed(u, v) ==
  IF ~u.ok \/ ~v.ok THEN [ok |-> FALSE, pts |-> << >>]
  ELSE [ok |-> TRUE, pts |-> u.pts \o v.pts]

\* The per-vertex loop of offsetPolygon (lines 331-395) from vertex i (1-based)
\* to vertex loopCount.
RECURSIVE offsetLoop(_, _, _, _, _, _, _)
offsetLoop(pts, i, loopCount, offsetAmt, joinType, miterLimit, arcTolerance) ==
  IF i > loopCount THEN [ok |-> TRUE, pts |-> << >>]
  ELSE pushed(offsetVertex(pts[((i - 2 + Len(pts)) % Len(pts)) + 1], pts[i],
                           pts[(i % Len(pts)) + 1], offsetAmt, joinType,
                           miterLimit, arcTolerance),
              offsetLoop(pts, i + 1, loopCount, offsetAmt, joinType, miterLimit,
                         arcTolerance))

\* A corner of a Square end cap (lines 409-410, 425-426):
\* Math.round(p + sn * n * offsetAmt + dir * offsetAmt), sn = 1 or -1.
squareCapPoint(p, n, sn, dir, off) ==
  <<Displace(p[1], (sn * n.x + dir.x) * off.n, n.d * off.d),
    Displace(p[2], (sn * n.y + dir.y) * off.n, n.d * off.d)>>

\* The Round caps (lines 405-406, 421-422) at the point p of the edge vector
\* startEdge or endEdge.
roundStartCap(p, startEdge, offsetAmt, arcTolerance) ==
  addRoundJoin(p[1], p[2], Negated(leftNormal(startEdge)), leftNormal(startEdge),
               offsetAmt, arcTolerance)

roundEndCap(p, endEdge, offsetAmt, arcTolerance) ==
  addRoundJoin(p[1], p[2], leftNormal(endEdge), Negated(leftNormal(endEdge)),
               offsetAmt, arcTolerance)

\* The Square caps (lines 407-411, 423-427).
squareStartCap(p, startEdge, offsetAmt) ==
  << squareCapPoint(p, leftNormal(startEdge), -1, Negated(startEdge), offsetAmt),
     squareCapPoint(p, leftNormal(startEdge), 1, Negated(startEdge), offsetAmt) >>

squareEndCap(p, endEdge, offsetAmt) ==
  << squareCapPoint(p, leftNormal(endEdge), 1, endEdge, offsetAmt),
     squareCapPoint(p, leftNormal(endEdge), -1, endEdge, offsetAmt) >>

\* The end caps of an open path (lines 398-429) applied to the loop's result:
\* both Round caps are pushed at the end, the Square start cap is unshifted.
endCaps(pts, result, offsetAmt, endType, arcTolerance) ==
  CASE endType = EndType_Round ->
         pushed([ok |-> TRUE, pts |-> result],
                pushed(roundStartCap(pts[1], norm(pts[1], pts[2]), offsetAmt,
                                     arcTolerance),
                       roundEndCap(pts[Len(pts)],
                                   norm(pts[Len(pts) - 1], pts[Len(pts)]),
                                   offsetAmt, arcTolerance)))
    [] endType = EndType_Square ->
         [ok |-> TRUE,
          pts |-> squareStartCap(pts[1], norm(pts[1], pts[2]), offsetAmt)
                  \o result
                  \o squareEndCap(pts[Len(pts)],
                                  norm(pts[Len(pts) - 1], pts[Len(pts)]),
                                  offsetAmt)]
    [] OTHER -> [ok |-> TRUE, pts |-> result]

\* Lines 397-431 for the outcome of the loop.
capped(pts, loop, offsetAmt, endType, arcTolerance) ==
  IF ~loop.ok THEN loop
  ELSE IF isOpenEnd(endType) /\ Len(pts) >= 2
  THEN endCaps(pts, loop.pts, offsetAmt, endType, arcTolerance)
  ELSE loop

\* offsetPolygon (lines 315-432): [ok |-> TRUE, pts |-> result], or
\* [ok |-> FALSE] when a round join or cap never returns.
offsetPolygon(pts, offsetAmt, joinType, endType, miterLimit, arcTolerance) ==
  IF Len(pts) < 3 THEN [ok |-> TRUE, pts |-> << >>]
  ELSE capped(pts,
              offsetLoop(pts, 1,
                         IF isOpenEnd(endType) THEN Len(pts) - 1 ELSE Len(pts),
                         offsetAmt, joinType, miterLimit, arcTolerance),
              offsetAmt, endType, arcTolerance)

(***************************************************************************)
(* offsetSvgPath                                                           *)
(***************************************************************************)
\* The test of line 448 with the threshold 0.0001 in place of 0.001.
negligible_tenth(offsetAmt) ==
  ~IsFinite(offsetAmt) \/ Abs(offsetAmt.n) * 10000 < offsetAmt.d

\* !isFinite(offsetAmt) || Math.abs(offsetAmt) < 0.001 (line 448).
negligible(offsetAmt) ==
  ~IsFinite(offsetAmt) \/ Abs(offsetAmt.n) * 1000 < offsetAmt.d

\* offsetAmt * SCALE (line 456).
scaledOffset(offsetAmt) == Rat(offsetAmt.n * SCALE, offsetAmt.d)

\* min + (max - min) * origin, as the pair <<numerator, origin.d>>.
anchorNum(lo, hi, origin) == lo.n * origin.d + (hi.n - lo.n) * origin.n

\* A parameter number | null is the tuple <<number>>, or Null.
Null == << >>

\* dx (or dy) that brings the boxes' minima together whatever the fraction.
anchorShift_min(pts, offsetPts, origin, k) ==
  IF origin = Null THEN Int2Num(0)
  ELSE IF ~IsFinite(bboxMin(pts, k)) \/ ~IsFinite(bboxMin(offsetPts, k)) THEN NaN
  ELSE Int2Num(bboxMin(pts, k).n - bboxMin(offsetPts, k).n)

\* dx (or dy) of lines 464-471 along axis k for the anchor fraction origin
\* (<<number>> or Null): NaN when a box has no number along the axis.
anchorShift(pts, offsetPts, origin, k) ==
  IF origin = Null THEN Int2Num(0)
  ELSE
    LET oLo == bboxMin(pts, k)
        oHi == bboxMax(pts, k)
        fLo == bboxMin(offsetPts, k)
        fHi == bboxMax(offsetPts, k)
        og  == origin[1]
    IN  IF ~IsFinite(oLo) \/ ~IsFinite(fLo) \/ ~IsFinite(og) THEN NaN
        ELSE Int2Num(RoundDiv(anchorNum(oLo, oHi, og) - anchorNum(fLo, fHi, og), og.d))

\* Lines 460-476: the offset points moved by (dx, dy).
anchorTranslate(pts, offsetPts, originX, originY) ==
  IF originX = Null /\ originY = Null THEN offsetPts
  ELSE
    LET dx == anchorShift(pts, offsetPts, originX, 1)
        dy == anchorShift(pts, offsetPts, originY, 2)
    IN  IF dx = Int2Num(0) /\ dy = Int2Num(0) THEN offsetPts
        ELSE [i \in 1..Len(offsetPts) |->
                <<RAdd(offsetPts[i][1], dx), RAdd(offsetPts[i][2], dy)>>]

(***************************************************************************)
(* Inputs                                                                  *)
(***************************************************************************)
\* "M 0 0 L 100 0 L 100 100 L 0 100 Z"
PathSquare ==
  << "M", " ", "0", " ", "0", " ", "L", " ", "1", "0", "0", " ", "0", " ",
     "L", " ", "1", "0", "0", " ", "1", "0", "0", " ", "L", " ", "0", " ",
     "1", "0", "0", " ", "Z" >>

\* "M 0 0 L 0 100 L 100 100 L 100 0 Z"
PathSquareCW ==
  << "M", " ", "0", " ", "0", " ", "L", " ", "0", " ", "1", "0", "0", " ",
     "L", " ", "1", "0", "0", " ", "1", "0", "0", " ", "L", " ", "1", "0",
     "0", " ", "0", " ", "Z" >>

\* "M 10 10 H 40 V 30 H 10 Z"
PathRect ==
  << "M", " ", "1", "0", " ", "1", "0", " ", "H", " ", "4", "0", " ", "V",
     " ", "3", "0", " ", "H", " ", "1", "0", " ", "Z" >>

\* "M 0 0 L 40 0 L 40 30 Z"
PathTriangle ==
  << "M", " ", "0", " ", "0", " ", "L", " ", "4", "0", " ", "0", " ", "L",
     " ", "4", "0", " ", "3", "0", " ", "Z" >>

\* "M 0 0 L 24 0 L 0 7 Z"
PathSpike ==
  << "M", " ", "0", " ", "0", " ", "L", " ", "2", "4", " ", "0", " ", "L",
     " ", "0", " ", "7", " ", "Z" >>

\* "M0,0 20,0 20,10 10,10 10,20 0,20z"
PathEll ==
  << "M", "0", ",", "0", " ", "2", "0", ",", "0", " ", "2", "0", ",", "1",
     "0", " ", "1", "0", ",", "1", "0", " ", "1", "0", ",", "2", "0", " ",
     "0", ",", "2", "0", "z" >>

\* "m 5 5 l 1e1 0 l 0 10 l -10 0 z"
PathRelative ==
  << "m", " ", "5", " ", "5", " ", "l", " ", "1", "e", "1", " ", "0", " ",
     "l", " ", "0", " ", "1", "0", " ", "l", " ", "-", "1", "0", " ", "0",
     " ", "z" >>

\* "M .5 0 L 2.5 0 L 2.5 1.5 Z"
PathHalf ==
  << "M", " ", ".", "5", " ", "0", " ", "L", " ", "2", ".", "5", " ", "0",
     " ", "L", " ", "2", ".", "5", " ", "1", ".", "5", " ", "Z" >>

\* "M 0 0 C 1 0 1 0 1 0 L 1 1 Z"
PathCubic ==
  << "M", " ", "0", " ", "0", " ", "C", " ", "1", " ", "0", " ", "1", " ",
     "0", " ", "1", " ", "0", " ", "L", " ", "1", " ", "1", " ", "Z" >>

\* "M 0 0 Q 2 0 2 0 V 2 Z"
PathQuad ==
  << "M", " ", "0", " ", "0", " ", "Q", " ", "2", " ", "0", " ", "2", " ",
     "0", " ", "V", " ", "2", " ", "Z" >>

\* "M 0 0 L 10 0 L 10 10"
PathOpen ==
  << "M", " ", "0", " ", "0", " ", "L", " ", "1", "0", " ", "0", " ", "L",
     " ", "1", "0", " ", "1", "0" >>

\* "M 0 0 L 10 0 L 10 10 L 0 0 Z"
PathRepeat ==
  << "M", " ", "0", " ", "0", " ", "L", " ", "1", "0", " ", "0", " ", "L",
     " ", "1", "0", " ", "1", "0", " ", "L", " ", "0", " ", "0", " ", "Z" >>

\* "M 0 0 L 10 0 Z"
PathTwo ==
  << "M", " ", "0", " ", "0", " ", "L", " ", "1", "0", " ", "0", " ", "Z" >>

\* "M 0 0 L 9 9 M 0 0 L 10 0 L 10 10 Z"
PathTwoSub ==
  << "M", " ", "0", " ", "0", " ", "L", " ", "9", " ", "9", " ", "M", " ",
     "0", " ", "0", " ", "L", " ", "1", "0", " ", "0", " ", "L", " ", "1",
     "0", " ", "1", "0", " ", "Z" >>

\* "M 0 0 L 40 0 L 40 30 L 0 0 Z"
PathClosedTwice ==
  << "M", " ", "0", " ", "0", " ", "L", " ", "4", "0", " ", "0", " ", "L",
     " ", "4", "0", " ", "3", "0", " ", "L", " ", "0", " ", "0", " ", "Z" >>

\* "L 0 0 L 40 0 L 40 30"
PathNoMove ==
  << "L", " ", "0", " ", "0", " ", "L", " ", "4", "0", " ", "0", " ", "L",
     " ", "4", "0", " ", "3", "0" >>

\* "M 0 0 A 5 L 10 0 L 10 10 Z"
PathUnknown ==
  << "M", " ", "0", " ", "0", " ", "A", " ", "5", " ", "L", " ", "1", "0",
     " ", "0", " ", "L", " ", "1", "0", " ", "1", "0", " ", "Z" >>

\* "M 0 0 L 10 0 L #"
PathStray ==
  << "M", " ", "0", " ", "0", " ", "L", " ", "1", "0", " ", "0", " ", "L",
     " ", "#" >>

\* "M 0 0 C 1 1"
PathTruncated ==
  << "M", " ", "0", " ", "0", " ", "C", " ", "1", " ", "1" >>

\* ""
PathEmpty ==
  << >>

\* "  "
PathBlank ==
  << " ", " " >>

\* "M 0 0 L 10 0 L 10 10 L 5"
PathNoY ==
  << "M", " ", "0", " ", "0", " ", "L", " ", "1", "0", " ", "0", " ", "L",
     " ", "1", "0", " ", "1", "0", " ", "L", " ", "5" >>

\* "M - 5 L - 6 L - 7"
PathNoX ==
  << "M", " ", "-", " ", "5", " ", "L", " ", "-", " ", "6", " ", "L", " ",
     "-", " ", "7" >>

PathInputs ==
  {PathSquare, PathSquareCW, PathRect, PathTriangle,
   PathSpike, PathEll, PathRelative, PathHalf,
   PathCubic, PathQuad, PathOpen, PathRepeat,
   PathTwo, PathTwoSub, PathNoMove, PathUnknown,
   PathStray, PathTruncated, PathEmpty, PathBlank,
   PathNoY, PathNoX, PathClosedTwice}

\* Offsets in user units: not finite, below the 0.001 threshold, on it, above.
OffsetInputs ==
  {NaN, PosInf, NegInf, Int2Num(0), Rat(1, 2000), Rat(-9, 10000),
   Rat(1, 1000), Rat(-1, 1000), Int2Num(10), Int2Num(-10), Int2Num(-60)}

JoinTypeInputs == {JoinType_Square, JoinType_Bevel, JoinType_Round, JoinType_Miter}

EndTypeInputs ==
  {EndType_Polygon, EndType_Joined, EndType_Butt, EndType_Square, EndType_Round}

\* The default 2.0, and 1.0, which no right angle passes.
MiterLimitInputs == {Int2Num(2), Int2Num(1)}

\* The default 0.25, and 2500 (a quarter of a 10-unit offset in scaled units).
ArcToleranceInputs == {Rat(1, 4), Int2Num(2500)}

OriginXInputs == {Null, <<Int2Num(0)>>, <<Rat(1, 4)>>, <<Rat(1, 2)>>, <<Int2Num(1)>>}

OriginYInputs == {Null, <<Int2Num(1)>>}

\* The longest path string of the exhaustive parser inputs, and their
\* characters.
MaxLen == 4

ParseAlphabet == {"M", "L", "H", "V", "C", "Z", "1", " ", "#"}

StringsUpTo(k) == UNION {[1..j -> ParseAlphabet] : j \in 0..k}

\* The parser's loop is followed until its subpaths hold this many segments.
MaxSegs == 8

(***************************************************************************)
(* What the model covers                                                   *)
(***************************************************************************)
Rectilinear(pts) ==
  \A i \in 1..Len(pts) :
    LET a == pts[i]
        b == pts[(i % Len(pts)) + 1]
    IN  IF HasNaN(<<a, b>>) THEN TRUE
        ELSE IF a[1].n = b[1].n THEN TRUE
        ELSE a[2].n = b[2].n

\* arcSteps is tabulated up to 4 steps.
ArcModelled(absDa, arcTolerance, r) ==
  IF ~IsFinite(arcTolerance) THEN TRUE
  ELSE LET rho == Rat(arcTolerance.n * r.d, arcTolerance.d * r.n)
       IN  IF rho.n <= 0 \/ rho.n > 2 * rho.d THEN TRUE
           ELSE cosReached(rho, absDa \div 8)

\* offsetPolygon is modelled for polygons whose edges have whole lengths, and
\* its arcs for axis-parallel edges and at most 4 steps.
Modelled(pts, offsetAmt, joinType, endType, arcTolerance) ==
  LET r == [offsetAmt EXCEPT !.n = Abs(@)]
  IN  IF ~ExactEdges(pts) THEN FALSE
      ELSE IF endType = EndType_Round /\ isOpenEnd(endType)
        THEN Rectilinear(pts) /\ ArcModelled(48, arcTolerance, r)
      ELSE IF joinType \notin {JoinType_Square, JoinType_Bevel, JoinType_Miter}
        THEN Rectilinear(pts) /\ ArcModelled(24, arcTolerance, r)
      ELSE TRUE

(***************************************************************************)
(* offsetSvgPath as one call                                               *)
(***************************************************************************)
\* parseSvgPath's loop (lines 87-173) from the state st to its end.  What an
\* iteration does to pos and cmd depends on src, pos and cmd alone, so an
\* iteration that leaves both as they were and does not break repeats for
\* ever: ended is FALSE then.
RECURSIVE parseLoop(_, _)

parseNext(src, st, nxt) ==
  IF nxt.pos = st.pos /\ nxt.cmd = st.cmd /\ ~nxt.brk
    THEN [ended |-> FALSE, subpaths |-> st.subpaths]
  ELSE parseLoop(src, nxt)

parseLoop(src, st) ==
  IF ~parseRunning(src, st) THEN [ended |-> TRUE, subpaths |-> st.subpaths]
  ELSE parseNext(src, st, parseIteration(src, st))

Returned(str) == [kind |-> "returned", value |-> str]

Threw == [kind |-> "threw", value |-> << >>]

NeverReturns == [kind |-> "hang", value |-> << >>]

\* Lines 457-478 for the result o of offsetPolygon.
afterOffset(pts, o, originX, originY) ==
  IF ~o.ok THEN NeverReturns
  ELSE IF Len(o.pts) < 3 THEN Returned(<< >>)
  ELSE Returned(pointsToSvg(anchorTranslate(pts, o.pts, originX, originY), SCALE))

\* Lines 451-478 for the result r of svgToPoints.
afterPoints(r, offsetAmt, joinType, endType, miterLimit, arcTolerance, originX, originY) ==
  IF r.status = "RangeError" THEN Threw
  ELSE IF r.status = "null" THEN Returned(<< >>)
  ELSE IF Len(r.pts) < 3 THEN Returned(<< >>)
  ELSE afterOffset(r.pts,
                   offsetPolygon(r.pts, scaledOffset(offsetAmt), joinType,
                                 endType, miterLimit, arcTolerance),
                   originX, originY)

\* Lines 450-478 for the outcome of the parser's loop.
afterParse(parsed, offsetAmt, joinType, endType, miterLimit, arcTolerance, originX, originY) ==
  IF ~parsed.ended THEN NeverReturns
  ELSE afterPoints(svgToPoints(parsed.subpaths, SCALE, FLATTEN_TOLERANCE),
                   offsetAmt, joinType, endType, miterLimit, arcTolerance,
                   originX, originY)

\* offsetSvgPath (lines 438-479): the string it returns, or that it threw,
\* or that it never returns.
offsetSvgPath(pathData, offsetAmt, joinType, endType, miterLimit, arcTolerance, originX, originY) ==
  IF negligible(offsetAmt) THEN Returned(pathData)
  ELSE afterParse(parseLoop(trim(pathData), ParserInit), offsetAmt, joinType,
                  endType, miterLimit, arcTolerance, originX, originY)

\* The call reaches offsetPolygon only with arguments it is modelled for.
pointsModelled(r, offsetAmt, joinType, endType, arcTolerance) ==
  IF r.status # "ok" THEN TRUE
  ELSE IF Len(r.pts) < 3 THEN TRUE
  ELSE Modelled(r.pts, scaledOffset(offsetAmt), joinType, endType, arcTolerance)

parsedModelled(parsed, offsetAmt, joinType, endType, arcTolerance) ==
  IF ~parsed.ended THEN TRUE
  ELSE pointsModelled(svgToPoints(parsed.subpaths, SCALE, FLATTEN_TOLERANCE),
                      offsetAmt, joinType, endType, arcTolerance)

callModelled(pathData, offsetAmt, joinType, endType, arcTolerance) ==
  IF negligible(offsetAmt) THEN TRUE
  ELSE parsedModelled(parseLoop(trim(pathData), ParserInit), offsetAmt,
                      joinType, endType, arcTolerance)

(***************************************************************************)
(* One call of offsetSvgPath                                               *)
(***************************************************************************)
VARIABLES
  pathData, offsetAmt,                 \* the arguments read at line 448
  joinType, endType, miterLimit, arcTolerance,  \* read at lines 453-456
  originX, originY,                    \* read at lines 460-471
  pc,                                  \* where the call is
  src, pos, cmd, subpaths, current, cx, cy, brk,  \* parseSvgPath's locals
  pts, offsetPts,                      \* offsetSvgPath's locals
  result,                              \* the string returned
  attrD, visibility, gsapOffsetPath,   \* the target element: its d attribute,
                                       \* style.visibility, __gsapOffsetPath
  data,                                \* the running tween's data object
  tweenPc,                             \* the last plugin method that ran
  tweenCount,                          \* the tweens created so far
  baseD,                               \* attrD before the first tween
  wasmModule, wasmInitialized, wasmInitPromise,  \* lines 571-573
  loads,                               \* the module loads started so far
  calls,                               \* the initOffsetPath calls made so far
  curve, flat                          \* flattenCubic's arguments and result

callVars ==
  <<pathData, offsetAmt, joinType, endType, miterLimit, arcTolerance,
    originX, originY, pc, src, pos, cmd, subpaths, current, cx, cy, brk,
    pts, offsetPts, result>>

elementVars == <<attrD, visibility, gsapOffsetPath>>

tweenVars == <<elementVars, data, tweenPc, tweenCount, baseD>>

wasmVars == <<wasmModule, wasmInitialized, wasmInitPromise, loads, calls>>

curveVars == <<curve, flat>>

vars == <<callVars, tweenVars, wasmVars, curveVars>>

parserVars == <<src, pos, cmd, subpaths, current, cx, cy, brk>>

configVars == <<joinType, endType, miterLimit, arcTolerance>>

originVars == <<originX, originY>>

parserState ==
  [pos |-> pos, cmd |-> cmd, subpaths |-> subpaths, current |-> current,
   cx |-> cx, cy |-> cy, brk |-> brk]

\* The arguments other than pathData and offsetAmt are only read later in the
\* call; the model draws each of them where the code first reads it.  Until
\* then the variables hold the plugin's defaults (lines 507-514).
\* An element whose d attribute is one of ds, before any tween: its
\* style.visibility is '' and it has no __gsapOffsetPath.
ElementInit(ds) ==
  /\ attrD \in ds
  /\ visibility = ""
  /\ gsapOffsetPath = Null
  /\ data = Null
  /\ tweenPc = "none"
  /\ tweenCount = 0
  /\ baseD = attrD

TweenIdle == ElementInit({<< >>})

\* Lines 571-573.
WasmIdle ==
  /\ wasmModule = Null
  /\ wasmInitialized = FALSE
  /\ wasmInitPromise = Null
  /\ loads = << >>
  /\ calls = << >>

CurveIdle ==
  /\ curve = << >>
  /\ flat = Null

CallIdle ==
  /\ pathData = << >>
  /\ offsetAmt = Int2Num(0)
  /\ joinType = JoinType_Round
  /\ endType = EndType_Polygon
  /\ miterLimit = Int2Num(2)
  /\ arcTolerance = Rat(1, 4)
  /\ originX = Null
  /\ originY = Null
  /\ pc = "idle"
  /\ src = << >>
  /\ pos = ParserInit.pos
  /\ cmd = ParserInit.cmd
  /\ subpaths = ParserInit.subpaths
  /\ current = ParserInit.current
  /\ cx = ParserInit.cx
  /\ cy = ParserInit.cy
  /\ brk = ParserInit.brk
  /\ pts = << >>
  /\ offsetPts = << >>
  /\ result = << >>

InitWith(paths, offsets) ==
  /\ TweenIdle
  /\ WasmIdle
  /\ CurveIdle
  /\ pathData \in paths
  /\ offsetAmt \in offsets
  /\ joinType = JoinType_Round
  /\ endType = EndType_Polygon
  /\ miterLimit = Int2Num(2)
  /\ arcTolerance = Rat(1, 4)
  /\ originX = Null
  /\ originY = Null
  /\ pc = "call"
  /\ src = << >>
  /\ pos = ParserInit.pos
  /\ cmd = ParserInit.cmd
  /\ subpaths = ParserInit.subpaths
  /\ current = ParserInit.current
  /\ cx = ParserInit.cx
  /\ cy = ParserInit.cy
  /\ brk = ParserInit.brk
  /\ pts = << >>
  /\ offsetPts = << >>
  /\ result = << >>

Init == InitWith(PathInputs, OffsetInputs)

InitParse == InitWith(StringsUpTo(MaxLen), {Rat(1, 1000)})

\* Line 448, and the entry into svgToPoints and parseSvgPath (lines 450, 216,
\* 81-85).
Enter ==
  /\ pc = "call"
  /\ IF negligible(offsetAmt)
     THEN /\ result' = pathData
          /\ pc' = "done"
          /\ src' = src
     ELSE /\ src' = trim(pathData)
          /\ pc' = "parse"
          /\ result' = result
  /\ UNCHANGED <<pathData, offsetAmt, configVars, originVars, pos, cmd, subpaths,
                 current, cx, cy, brk, pts, offsetPts>>
  /\ UNCHANGED <<tweenVars, wasmVars, curveVars>>

SegCount == IF Len(subpaths) = 0 THEN 0
            ELSE Len(subpaths[Len(subpaths)].segs) + Len(subpaths) - 1

parserBecomes(st) ==
  /\ pos' = st.pos
  /\ cmd' = st.cmd
  /\ subpaths' = st.subpaths
  /\ current' = st.current
  /\ cx' = st.cx
  /\ cy' = st.cy
  /\ brk' = st.brk

\* One iteration of the parser's loop.
ParseStep ==
  /\ pc = "parse"
  /\ parseRunning(src, parserState)
  /\ SegCount < MaxSegs
  /\ parserBecomes(parseIteration(src, parserState))
  /\ UNCHANGED <<pathData, offsetAmt, configVars, originVars, pc, src, pts,
                 offsetPts, result>>
  /\ UNCHANGED <<tweenVars, wasmVars, curveVars>>

\* Lines 450-451 returning the input string where the code returns ''.
pointsBecome_echo(r) ==
  CASE r.status = "RangeError" ->
         /\ pc' = "threw"
         /\ UNCHANGED <<pts, result>>
    [] r.status = "null" \/ Len(r.pts) < 3 ->
         /\ pc' = "done"
         /\ result' = pathData
         /\ pts' = pts
    [] OTHER ->
         /\ pc' = "offset"
         /\ pts' = r.pts
         /\ result' = result

\* Lines 450-451 for the outcome r of svgToPoints.
pointsBecome(r) ==
  CASE r.status = "RangeError" ->
         /\ pc' = "threw"
         /\ UNCHANGED <<pts, result>>
    [] r.status = "null" \/ Len(r.pts) < 3 ->
         /\ pc' = "done"
         /\ result' = << >>
         /\ pts' = pts
    [] OTHER ->
         /\ pc' = "offset"
         /\ pts' = r.pts
         /\ result' = result

\* The parser's loop has ended: the rest of svgToPoints (lines 217-253) and
\* line 451.
BuildPoints ==
  /\ pc = "parse"
  /\ ~parseRunning(src, parserState)
  /\ pointsBecome(svgToPoints(subpaths, SCALE, FLATTEN_TOLERANCE))
  /\ UNCHANGED <<pathData, offsetAmt, configVars, originVars, parserVars, offsetPts>>
  /\ UNCHANGED <<tweenVars, wasmVars, curveVars>>

\* Lines 456-457 for the outcome r of offsetPolygon.
offsetBecomes(r) ==
  CASE ~r.ok ->
         /\ pc' = "hang"
         /\ UNCHANGED <<offsetPts, result>>
    [] r.ok /\ Len(r.pts) < 3 ->
         /\ pc' = "done"
         /\ result' = << >>
         /\ offsetPts' = r.pts
    [] OTHER ->
         /\ pc' = "anchor"
         /\ offsetPts' = r.pts
         /\ result' = result

\* Lines 453-457 with the given configuration.
Offset(jt, et, ml, at) ==
  /\ pc = "offset"
  /\ Modelled(pts, scaledOffset(offsetAmt), jt, et, at)
  /\ joinType' = jt
  /\ endType' = et
  /\ miterLimit' = ml
  /\ arcTolerance' = at
  /\ offsetBecomes(offsetPolygon(pts, scaledOffset(offsetAmt), jt, et, ml, at))
  /\ UNCHANGED <<pathData, offsetAmt, originVars, parserVars, pts>>
  /\ UNCHANGED <<tweenVars, wasmVars, curveVars>>

OffsetStep ==
  \E jt \in JoinTypeInputs, et \in EndTypeInputs,
     ml \in MiterLimitInputs, at \in ArcToleranceInputs : Offset(jt, et, ml, at)

\* Lines 459-478 with the given anchor.
Anchor(ox, oy) ==
  /\ pc = "anchor"
  /\ originX' = ox
  /\ originY' = oy
  /\ offsetPts' = anchorTranslate(pts, offsetPts, ox, oy)
  /\ result' = pointsToSvg(offsetPts', SCALE)
  /\ pc' = "done"
  /\ UNCHANGED <<pathData, offsetAmt, configVars, parserVars, pts>>
  /\ UNCHANGED <<tweenVars, wasmVars, curveVars>>

Finish == \E ox \in OriginXInputs, oy \in OriginYInputs : Anchor(ox, oy)

Next == Enter \/ ParseStep \/ BuildPoints \/ OffsetStep \/ Finish

Spec == Init /\ [][Next]_vars

\* The call as the plugin makes it with its default options.
OffsetDefault == Offset(JoinType_Round, EndType_Polygon, Int2Num(2), Rat(1, 4))

FinishDefault == Anchor(Null, Null)

NextParse == Enter \/ ParseStep \/ BuildPoints \/ OffsetDefault \/ FinishDefault

SpecParse == InitParse /\ [][NextParse]_vars

(***************************************************************************)
(* The GSAP plugin (lines 485-565)                                         *)
(***************************************************************************)
MaxTweens == 3

\* a ?? b
Coalesce(a, b) == IF a = Null THEN b ELSE a

\* Lines 501-502: a number becomes { offset: value }.  A number is a record
\* with the fields n and d; an options object has the field offset, and
\* Null where the property is absent.
NoOptions ==
  [joinType |-> Null, endType |-> Null, miterLimit |-> Null,
   arcTolerance |-> Null, originX |-> Null, originY |-> Null]

optionsOf(value) ==
  IF "n" \in DOMAIN value
    THEN [f \in DOMAIN NoOptions \cup {"offset"} |->
            IF f = "offset" THEN value ELSE NoOptions[f]]
  ELSE value

\* Lines 507-514.
defaulted(options) ==
  [joinType |-> Coalesce(options.joinType, <<JoinType_Round>>)[1],
   endType |-> Coalesce(options.endType, <<EndType_Polygon>>)[1],
   miterLimit |-> Coalesce(options.miterLimit, Int2Num(2)),
   arcTolerance |-> Coalesce(options.arcTolerance, Rat(1, 4)),
   originX |-> Coalesce(options.originX, Null),
   originY |-> Coalesce(options.originY, Null)]

\* The data object after init (lines 504-517) for the element's d attribute
\* and __gsapOffsetPath.
dataOf(originalPath, chained, options) ==
  [target |-> TRUE,
   originalPath |-> originalPath,
   options |-> defaulted(options),
   startOffset |-> Coalesce(chained, Int2Num(0)),
   endOffset |-> options.offset]

\* init (lines 489-520) on an SVG path element.  getAttribute gives null or
\* the string; both null and '' fail the test of line 496, and the plugin
\* instance is then left without data.
TweenInit(value) ==
  /\ tweenPc # "hung"
  /\ tweenCount < MaxTweens
  /\ tweenCount' = tweenCount + 1
  /\ IF attrD = << >>
     THEN /\ data' = Null
          /\ tweenPc' = "refused"
     ELSE /\ data' = dataOf(attrD, gsapOffsetPath, optionsOf(value))
          /\ tweenPc' = "init"
  /\ UNCHANGED <<elementVars, baseD>>
  /\ UNCHANGED <<callVars, wasmVars, curveVars>>

\* Lines 523-524.
offsetAmount(startOffset, endOffset, progress) ==
  RAdd(startOffset, RMul(RSub(endOffset, startOffset), progress))

\* Math.abs(offsetAmount) < 0.001 (line 529).
belowThreshold(a) == IsFinite(a) /\ Abs(a.n) * 1000 < a.d

\* !result || result.trim() === '' (line 546).
blank(str) == trim(str) = << >>

\* Lines 546-552 with the test of line 546 left out.
renderBecomes_shown(r) ==
  CASE r.kind = "hang" ->
         /\ tweenPc' = "hung"
         /\ UNCHANGED <<attrD, visibility>>
    [] r.kind = "threw" ->
         /\ visibility' = "hidden"
         /\ attrD' = attrD
         /\ tweenPc' = "rendered"
    [] OTHER ->
         /\ visibility' = "visible"
         /\ attrD' = r.value
         /\ tweenPc' = "rendered"

\* Lines 535-556 for the outcome r of offsetSvgPath.
renderBecomes(r) ==
  CASE r.kind = "hang" ->
         /\ tweenPc' = "hung"
         /\ UNCHANGED <<attrD, visibility>>
    [] r.kind = "threw" ->
         /\ visibility' = "hidden"
         /\ attrD' = attrD
         /\ tweenPc' = "rendered"
    [] r.kind = "returned" /\ blank(r.value) ->
         /\ visibility' = "hidden"
         /\ attrD' = attrD
         /\ tweenPc' = "rendered"
    [] OTHER ->
         /\ visibility' = "visible"
         /\ attrD' = r.value
         /\ tweenPc' = "rendered"

computed(dt, a) ==
  offsetSvgPath(dt.originalPath, a, dt.options.joinType, dt.options.endType,
                dt.options.miterLimit, dt.options.arcTolerance,
                dt.options.originX, dt.options.originY)

renderModelled(dt, a) ==
  callModelled(dt.originalPath, a, dt.options.joinType, dt.options.endType,
               dt.options.arcTolerance)

\* Lines 526-556 for the interpolated offset a.
RenderAt(a) ==
  /\ renderModelled(data, a)
  /\ gsapOffsetPath' = a
  /\ IF belowThreshold(a)
     THEN /\ visibility' = "visible"
          /\ attrD' = data.originalPath
          /\ tweenPc' = "rendered"
     ELSE renderBecomes(computed(data, a))

\* render (lines 522-557) of the running tween.
Render(progress) ==
  /\ tweenPc \in {"init", "rendered"}
  /\ RenderAt(offsetAmount(data.startOffset, data.endOffset, progress))
  /\ UNCHANGED <<data, tweenCount, baseD>>
  /\ UNCHANGED <<callVars, wasmVars, curveVars>>

\* Lines 560-563 also showing the element.
killBecomes_shown(dt) ==
  IF dt = Null THEN UNCHANGED elementVars
  ELSE /\ attrD' = dt.originalPath
       /\ visibility' = "visible"
       /\ gsapOffsetPath' = gsapOffsetPath

\* Lines 560-563: _target and _originalPath are set together by init, and
\* _originalPath is then a non-empty string.
killBecomes(dt) ==
  IF dt = Null THEN UNCHANGED elementVars
  ELSE /\ attrD' = dt.originalPath
       /\ UNCHANGED <<visibility, gsapOffsetPath>>

\* kill (lines 559-564).
Kill ==
  /\ tweenPc \in {"init", "rendered", "refused"}
  /\ killBecomes(data)
  /\ tweenPc' = "killed"
  /\ UNCHANGED <<data, tweenCount, baseD>>
  /\ UNCHANGED <<callVars, wasmVars, curveVars>>

\* The values given to the offsetPath property: a number, or an options
\* object.
OptionsWith(offset, jt, at) ==
  [offset |-> offset, joinType |-> jt, endType |-> Null, miterLimit |-> Null,
   arcTolerance |-> at, originX |-> Null, originY |-> Null]

TweenValues ==
  {Int2Num(0), NaN,
   OptionsWith(Int2Num(10), <<JoinType_Miter>>, Null),
   OptionsWith(Int2Num(-10), <<JoinType_Bevel>>, Null),
   OptionsWith(Int2Num(10), Null, Int2Num(100000))}

ProgressInputs == {Int2Num(0), Rat(1, 2), Int2Num(1)}

DInputs == {PathSquare, PathTwo, PathTruncated, PathStray, PathBlank, PathEmpty}

PureTweenInit == \E value \in TweenValues : TweenInit(value)

PureRender == \E progress \in ProgressInputs : Render(progress)

InitTween ==
  /\ CallIdle
  /\ CurveIdle
  /\ WasmIdle
  /\ ElementInit(DInputs)

NextTween == PureTweenInit \/ PureRender \/ Kill

SpecTween == InitTween /\ [][NextTween]_vars

(***************************************************************************)
(* The WASM variant: loading the module (lines 569-611)                    *)
(***************************************************************************)
MaxCalls == 3

MaxLoads == 2

\* A load is one run of the async function of lines 586-601.  Its stage is
\* the await it is suspended at ("import", line 588; "instantiate", line
\* 593) or the way its promise has settled.
InFlight(load) == load.stage \in {"import", "instantiate"}

Settled(load) == load.stage \in {"fulfilled", "rejected"}

LoadsInFlight == {k \in 1..Len(loads) : InFlight(loads[k])}

LoadSucceeded == \E k \in 1..Len(loads) : loads[k].stage = "fulfilled"

\* Line 583 alone: a call made before a load has succeeded always starts one.
initOffsetPathBranch_nojoin(initialized, promise) ==
  IF initialized THEN "return" ELSE "start"

\* Lines 583-586: what a call does with the module state it finds.
initOffsetPathBranch(initialized, promise) ==
  IF initialized THEN "return"
  ELSE IF promise # Null THEN "join"
  ELSE "start"

\* The record of a call: the load whose promise it returns (Null at line
\* 583), the loads that were in flight when it was made, and the state of
\* the promise the async function initOffsetPath gave its caller.
CallOf(promise, state) ==
  [promise |-> promise, pendingAtCall |-> LoadsInFlight, state |-> state]

\* One call of initOffsetPath (lines 582-604) up to its return.  The async
\* function of line 586 runs synchronously to its first await, so the load
\* is at "import" when the call returns.
InitOffsetPathAs(branch) ==
  /\ Len(calls) < MaxCalls
  /\ CASE branch = "return" ->
            /\ calls' = Append(calls, CallOf(Null, "fulfilled"))
            /\ UNCHANGED <<wasmInitPromise, loads>>
       [] branch = "join" ->
            /\ calls' = Append(calls, CallOf(wasmInitPromise, "pending"))
            /\ UNCHANGED <<wasmInitPromise, loads>>
       [] OTHER ->
            /\ Len(loads) < MaxLoads
            /\ loads' = Append(loads, [stage |-> "import",
                                       afterSuccess |-> LoadSucceeded])
            /\ wasmInitPromise' = <<Len(loads) + 1>>
            /\ calls' = Append(calls, CallOf(<<Len(loads) + 1>>, "pending"))
  /\ UNCHANGED <<wasmModule, wasmInitialized>>
  /\ UNCHANGED <<callVars, tweenVars, curveVars>>

InitOffsetPath ==
  InitOffsetPathAs(initOffsetPathBranch(wasmInitialized, wasmInitPromise))

\* The import of line 588 resolves: the load goes on to line 593.
ImportResolves ==
  \E k \in 1..Len(loads) :
    /\ loads[k].stage = "import"
    /\ loads' = [loads EXCEPT ![k].stage = "instantiate"]
    /\ UNCHANGED <<wasmModule, wasmInitialized, wasmInitPromise, calls>>
    /\ UNCHANGED <<callVars, tweenVars, curveVars>>

\* module.default of line 593 resolves: lines 595-596.
InstantiateResolves ==
  \E k \in 1..Len(loads) :
    /\ loads[k].stage = "instantiate"
    /\ loads' = [loads EXCEPT ![k].stage = "fulfilled"]
    /\ wasmModule' = <<k>>
    /\ wasmInitialized' = TRUE
    /\ UNCHANGED <<wasmInitPromise, calls>>
    /\ UNCHANGED <<callVars, tweenVars, curveVars>>

\* Either await rejects: the catch of lines 597-600.
LoadRejects ==
  \E k \in 1..Len(loads) :
    /\ InFlight(loads[k])
    /\ loads' = [loads EXCEPT ![k].stage = "rejected"]
    /\ wasmInitPromise' = Null
    /\ UNCHANGED <<wasmModule, wasmInitialized, calls>>
    /\ UNCHANGED <<callVars, tweenVars, curveVars>>

\* The promise initOffsetPath gave a caller follows the promise its body
\* returned (lines 584, 603) once that one has settled.
CallSettles ==
  \E c \in 1..Len(calls) :
    /\ calls[c].state = "pending"
    /\ Settled(loads[calls[c].promise[1]])
    /\ calls' = [calls EXCEPT ![c].state = loads[calls[c].promise[1]].stage]
    /\ UNCHANGED <<wasmModule, wasmInitialized, wasmInitPromise, loads>>
    /\ UNCHANGED <<callVars, tweenVars, curveVars>>

\* Lines 609-611.
isReady == wasmInitialized

(***************************************************************************)
(* The WASM variant: the plugin (lines 631-723)                            *)
(***************************************************************************)
\* Line 680 read as if the module were always there.
renderReady_always(initialized, module) == TRUE

\* The negation of line 680.
renderReady(initialized, module) == initialized /\ module # Null

\* offset_svg_path is the compiled module's: any outcome.
WasmOutcomes == {Threw, Returned(<< >>), Returned(PathRect), Returned(PathTriangle)}

\* Lines 678-714 for the interpolated offset a and the outcome r of
\* offset_svg_path.
RenderWasmAt(a, r) ==
  /\ gsapOffsetPath' = a
  /\ tweenPc' = "rendered"
  /\ IF ~renderReady(wasmInitialized, wasmModule)
       THEN UNCHANGED <<attrD, visibility>>
     ELSE IF belowThreshold(a)
       THEN /\ visibility' = "visible"
            /\ attrD' = data.originalPath
     ELSE IF r.kind = "threw"
       THEN /\ visibility' = "hidden"
            /\ attrD' = attrD
     ELSE IF blank(r.value)
       THEN /\ visibility' = "hidden"
            /\ attrD' = attrD
     ELSE /\ visibility' = "visible"
          /\ attrD' = r.value

\* render of the WASM variant (lines 673-715).
RenderWasm(progress, r) ==
  /\ tweenPc \in {"init", "rendered"}
  /\ RenderWasmAt(offsetAmount(data.startOffset, data.endOffset, progress), r)
  /\ UNCHANGED <<data, tweenCount, baseD>>
  /\ UNCHANGED <<callVars, wasmVars, curveVars>>

WasmTweenValues == {Int2Num(10), Int2Num(0)}

WasmDInputs == {PathSquare, PathEmpty}

\* init (lines 635-671) and kill (lines 717-722) are those of lines 489-520
\* and 559-564.
WasmTweenInit == \E value \in WasmTweenValues : TweenInit(value)

WasmRender == \E progress \in ProgressInputs, r \in WasmOutcomes : RenderWasm(progress, r)

InitWasm ==
  /\ CallIdle
  /\ CurveIdle
  /\ WasmIdle
  /\ ElementInit(WasmDInputs)

NextWasm ==
  \/ InitOffsetPath
  \/ ImportResolves
  \/ InstantiateResolves
  \/ LoadRejects
  \/ CallSettles
  \/ WasmTweenInit
  \/ WasmRender
  \/ Kill

SpecWasm == InitWasm /\ [][NextWasm]_vars

(***************************************************************************)
(* One call of flattenCubic                                                *)
(***************************************************************************)
\* The curve starts at the origin; its other control points lie on a grid of
\* the square 0..50.
GridPoints == {<<Int2Num(x), Int2Num(y)>> : x \in {0, 25, 50}, y \in {0, 25, 50}}

EndPoints == {<<Int2Num(50), Int2Num(0)>>, <<Int2Num(0), Int2Num(0)>>,
              <<Int2Num(50), Int2Num(50)>>}

CurveInputs ==
  {<< <<Int2Num(0), Int2Num(0)>>, p1, p2, p3 >> :
     p1 \in GridPoints, p2 \in GridPoints, p3 \in EndPoints}

InitFlatten ==
  /\ CallIdle
  /\ TweenIdle
  /\ WasmIdle
  /\ curve \in CurveInputs
  /\ flat = Null

\* flattenCubic(p0, p1, p2, p3, FLATTEN_TOLERANCE, out) as svgToPoints calls
\* it (line 230).
Flatten ==
  /\ flat = Null
  /\ flat' = flattenCubic(curve[1], curve[2], curve[3], curve[4], FLATTEN_TOLERANCE)
  /\ UNCHANGED curve
  /\ UNCHANGED <<callVars, tweenVars, wasmVars>>

SpecFlatten == InitFlatten /\ [][Flatten]_vars

(***************************************************************************)
(* Properties                                                              *)
(***************************************************************************)
\* The call went through offsetPolygon and has returned.
Offsetted == pc = "done" /\ Len(pts) >= 3

ClosedEnd == endType \in {EndType_Polygon, EndType_Joined}

NoAnchor == originX = Null /\ originY = Null

\* The direction from a to b as a whole vector in lowest terms.
Direction(a, b) ==
  IF a = b THEN <<0, 0>>
  ELSE <<(b[1].n - a[1].n) \div Gcd(Abs(b[1].n - a[1].n), Abs(b[2].n - a[2].n)),
         (b[2].n - a[2].n) \div Gcd(Abs(b[1].n - a[1].n), Abs(b[2].n - a[2].n))>>

Turn(u, v) == Sign(u[1] * v[2] - u[2] * v[1])

\* The sign of cross(p[i+1] - p[i], p[i+2] - p[i+1]) for whole points, indices
\* cyclic.
TurnAt(p, i) ==
  Turn(Direction(p[i], p[(i % Len(p)) + 1]),
       Direction(p[(i % Len(p)) + 1], p[((i + 1) % Len(p)) + 1]))

\* A polygon of numbers that turns the same way, and does turn, at every
\* vertex.
StrictlyConvex(p) ==
  /\ Len(p) >= 3
  /\ ~HasNaN(p)
  /\ \A i \in 1..Len(p) : TurnAt(p, i) = TurnAt(p, 1) /\ TurnAt(p, i) # 0

\* Box a lies strictly inside box b.
StrictlyInside(a, b) ==
  /\ RLess(b.minX, a.minX) /\ RLess(a.maxX, b.maxX)
  /\ RLess(b.minY, a.minY) /\ RLess(a.maxY, b.maxY)

\* C1: for a convex closed polygon and no anchor, a positive offset returns a
\* path whose bounding box strictly contains the input's, and a negative
\* offset a non-empty path whose bounding box lies strictly inside it.
C1_SignConvention ==
  (Offsetted /\ StrictlyConvex(pts) /\ ClosedEnd /\ NoAnchor)
    => IF offsetAmt.n > 0
       THEN result # << >> /\ StrictlyInside(bbox(pts), bbox(offsetPts))
       ELSE result # << >> /\ StrictlyInside(bbox(offsetPts), bbox(pts))

\* The offset is not finite, or |offset| < 0.001.
SmallOffset == ~IsFinite(offsetAmt) \/ Abs(offsetAmt.n) * 1000 < offsetAmt.d

\* C2: when the offset is not finite or |offset| < 0.001, the call returns the
\* input string itself, for any string, and neither parses nor serializes.
C2_IdentityAtNegligibleOffset ==
  SmallOffset =>
    /\ pc \in {"call", "done"}
    /\ pc = "done" => result = pathData
    /\ src = << >> /\ subpaths = << >> /\ pts = << >> /\ offsetPts = << >>

C2_Witness ==
  /\ pc = "done"
  /\ offsetAmt = Rat(-9, 10000)
  /\ pathData = PathStray
  /\ result = PathStray

\* Half the shorter side of the bounding box, which no inradius exceeds, is
\* less than the inward offset.
BeyondInradius ==
  /\ offsetAmt.n < 0
  /\ \/ RLess(RSub(bboxMax(pts, 1), bboxMin(pts, 1)),
              Rat(2 * Abs(offsetAmt.n) * SCALE, offsetAmt.d))
     \/ RLess(RSub(bboxMax(pts, 2), bboxMin(pts, 2)),
              Rat(2 * Abs(offsetAmt.n) * SCALE, offsetAmt.d))

\* C3: a convex closed shape offset inward by more than its inradius returns
\* the empty string; so does the square of side 100 with offset -60.
C3_CollapseToEmpty ==
  (Offsetted /\ StrictlyConvex(pts) /\ endType = EndType_Polygon /\ BeyondInradius)
    => result = << >>

\* The box b with d added on every side.
Grown(b, d) ==
  [minX |-> RSub(b.minX, d), minY |-> RSub(b.minY, d),
   maxX |-> RAdd(b.maxX, d), maxY |-> RAdd(b.maxY, d)]

\* C4: an outward Bevel offset d of an axis-aligned rectangle, endType Polygon
\* and no anchor, extends the bounding box by d on every side; the square of
\* side 100 with d = 10 gets the box from -10 to 110, 120 by 120, centred as
\* the input.
C4_BevelRectangleBox ==
  (/\ Offsetted
   /\ pathData \in {PathSquare, PathSquareCW, PathRect}
   /\ offsetAmt.n > 0
   /\ joinType = JoinType_Bevel
   /\ endType = EndType_Polygon
   /\ NoAnchor)
    => bbox(offsetPts) = Grown(bbox(pts), scaledOffset(offsetAmt))

\* C5: for every string and every offset of at least 0.001 in magnitude the
\* call returns without throwing: the recursion of the flattener ends, and
\* every iteration of the parser's loop moves the position forward or leaves
\* the loop.
C5_TerminatesWithoutThrowing ==
  /\ [](pc # "threw")
  /\ [][(pc = "parse" /\ pc' = "parse") => (pos' > pos \/ brk')]_vars

\* The parser's loop has ended in a call that went past line 448.
ParseEnded == pc \in {"offset", "anchor", "done", "threw", "hang"} /\ ~SmallOffset

\* The points the loop of svgToPoints gives for the first subpath.
FirstFloatPoints ==
  floatPoints(subpaths[1].segs, 1, <<Int2Num(0), Int2Num(0)>>, << >>,
              FLATTEN_TOLERANCE)

\* There is no subpath, or the first one flattens to fewer than 3 points.
FewPoints ==
  IF Len(subpaths) = 0 THEN TRUE
  ELSE FirstFloatPoints.ok /\ Len(FirstFloatPoints.pts) < 3

\* C6: when |offset| >= 0.001 and the parsed string has no subpath, or its
\* first subpath gives fewer than 3 points after flattening, the call returns
\* the empty string, and offsetPolygon is never entered.
C6_EmptySentinel ==
  (ParseEnded /\ FewPoints) =>
    /\ pc = "done"
    /\ result = << >>
    /\ pts = << >> /\ offsetPts = << >>

\* A string with a subpath of two points has been answered.
C6_Witness ==
  /\ pc = "done"
  /\ ~SmallOffset
  /\ Len(subpaths) > 0
  /\ FewPoints
  /\ Len(FirstFloatPoints.pts) = 2
  /\ result = << >>

\* min + origin * (max - min) of the box of p along axis k, times origin.d.
AnchorAt(p, origin, k) == anchorNum(bboxMin(p, k), bboxMax(p, k), origin[1])

\* The anchor point of the returned points along axis k is within 1 scaled
\* unit of the input polygon's, when origin is supplied and both boxes have a
\* number along the axis.
AnchorFixed(origin, k) ==
  IF origin = Null THEN TRUE
  ELSE IF ~IsFinite(bboxMin(pts, k)) \/ ~IsFinite(bboxMin(offsetPts, k)) THEN TRUE
  ELSE Abs(AnchorAt(offsetPts, origin, k) - AnchorAt(pts, origin, k))
         <= origin[1].d

\* C7: when originX (originY) is supplied, the point min + origin * (max - min)
\* of the bounding box of the returned points is within 1 scaled unit of the
\* same point of the input polygon's bounding box, for every polygon, offset,
\* join and end type and anchor fraction, originX = 0 included.
C7_AnchorFixedPoint ==
  (pc = "done" /\ Len(offsetPts) >= 3)
    => AnchorFixed(originX, 1) /\ AnchorFixed(originY, 2)

\* The square offset by 10 with Miter joins and anchored at its left and
\* bottom sides: the offset square 10..90 has been moved to 0..80 by 20..100.
C7_Witness ==
  /\ pc = "done"
  /\ pathData = PathSquare
  /\ offsetAmt = Int2Num(10)
  /\ joinType = JoinType_Miter
  /\ originX = <<Int2Num(0)>>
  /\ originY = <<Int2Num(1)>>
  /\ bbox(offsetPts) = [minX |-> Int2Num(0), minY |-> Int2Num(20000),
                        maxX |-> Int2Num(80000), maxY |-> Int2Num(100000)]

\* |offset / cross(e1, bisect)| <= miterLimit * |offset| for the bisector b of
\* an edge vector of length d: cross(e1, bisect)^2 = k^2 / (d^2 * ll), and
\* offset / 0 is Infinity.
MiterDistanceWithin(b, d, ml) ==
  /\ b.k # 0
  /\ IsFinite(ml) /\ ml.n >= 0
  /\ d * d * b.ll * ml.d * ml.d <= ml.n * ml.n * b.k * b.k

\* The points `out` from index j on are what the vertices of p from i on
\* give with joinType Miter: at a convex corner the bisector point when the
\* miter distance is within the limit and else the two bevel points, and one
\* point at any other corner.
RECURSIVE MiterMatches(_, _, _, _, _, _)
RECURSIVE MiterCornerMatches(_, _, _, _, _, _, _, _)
MiterMatches(p, i, out, j, off, ml) ==
  IF i > Len(p) THEN j = Len(out) + 1
  ELSE MiterCornerMatches(p, i, out, j, off, ml,
                          norm(p[((i - 2 + Len(p)) % Len(p)) + 1], p[i]),
                          norm(p[i], p[(i % Len(p)) + 1]))

MiterCornerMatches(p, i, out, j, off, ml, e1, e2) ==
  IF isConvex(e1, e2, off) /\ ~crossTiny(e1, e2)
  THEN IF MiterDistanceWithin(bisector(e1, e2), e1.d, ml)
       THEN IF j > Len(out) THEN FALSE
            ELSE /\ out[j] = bisectorPoint(p[i], bisector(e1, e2), e1.d, off)
                 /\ MiterMatches(p, i + 1, out, j + 1, off, ml)
       ELSE IF j + 1 > Len(out) THEN FALSE
            ELSE /\ out[j] = alongNormal(p[i], leftNormal(e1), off)
                 /\ out[j + 1] = alongNormal(p[i], leftNormal(e2), off)
                 /\ MiterMatches(p, i + 1, out, j + 2, off, ml)
  ELSE MiterMatches(p, i + 1, out, j + 1, off, ml)

PolygonBuilt ==
  /\ pc \in {"offset", "anchor", "done", "hang"}
  /\ Len(pts) >= 3
  /\ ~HasNaN(pts)

\* What svgToPoints returns for the same first subpath with its points listed
\* in the opposite order.
OppositeOrderPoints == scalePoints(Reverse(FirstFloatPoints.pts), SCALE)

\* C9: the polygon svgToPoints returns for 3 or more points has a shoelace
\* sum <= 0 whatever the winding of the input, and the same vertices listed in
\* the opposite order give a polygon of the same orientation (the very same
\* sequence when the sum is not 0).
C9_WindingNormalized ==
  PolygonBuilt =>
    /\ areaSign(pts) \in {-1, 0}
    /\ areaSign(OppositeOrderPoints) = areaSign(pts)
    /\ areaSign(pts) = -1 => OppositeOrderPoints = pts

\* The square listed with a positive shoelace sum has been reversed.
C9_Witness ==
  /\ pc = "offset"
  /\ pathData = PathSquareCW
  /\ pts = <<<<Int2Num(100000), Int2Num(0)>>, <<Int2Num(100000), Int2Num(100000)>>,
             <<Int2Num(0), Int2Num(100000)>>, <<Int2Num(0), Int2Num(0)>>>>
  /\ pts = Reverse([i \in 1..4 |-> <<ScaleRound(FirstFloatPoints.pts[i][1], SCALE),
                                     ScaleRound(FirstFloatPoints.pts[i][2], SCALE)>>])

\* The string holds no Move command.
NoMove == \A i \in 1..Len(pathData) : pathData[i] \notin {"M", "m"}

DrawnFirst ==
  /\ pc # "call" /\ pos > 1
  /\ src[1] \in {"L", "l", "H", "h", "V", "v", "C", "c", "Q", "q"}
  /\ IF skipSep(src, 2) > Len(src) THEN TRUE
     ELSE ~IsLetter(src[skipSep(src, 2)])

\* The one subpath begins with a MoveTo the parser made up: at the end point
\* of the L, H or V command that opened it, or at (0, 0) before a C or Q.
ImplicitMove(segs) ==
  /\ Len(segs) >= 2
  /\ segs[1].type = "M"
  /\ segs[1].pts[1] = IF segs[2].type = "L" THEN segs[2].pts[1]
                      ELSE <<Int2Num(0), Int2Num(0)>>

JoinedLoad(c) == CHOOSE k \in calls[c].pendingAtCall : TRUE

\* C11: whatever the order of initOffsetPath calls and of the load's steps, at
\* most one load is in flight; a call made while a load was in flight returns
\* that load's promise and, once settled, has settled the way that load did;
\* and no load was started after one had succeeded.
C11_SingleSharedLoad ==
  /\ Cardinality(LoadsInFlight) <= 1
  /\ \A c \in 1..Len(calls) :
       calls[c].pendingAtCall # {} =>
         /\ calls[c].promise = <<JoinedLoad(c)>>
         /\ calls[c].state # "pending" =>
              calls[c].state = loads[JoinedLoad(c)].stage
  /\ \A k \in 1..Len(loads) : ~loads[k].afterSuccess

\* A call joined a load that then failed, and a later call's load succeeded.
C11_Witness ==
  /\ \E c \in 1..Len(calls) :
       calls[c].pendingAtCall # {} /\ calls[c].state = "rejected"
  /\ \E c \in 1..Len(calls) :
       calls[c].promise # Null /\ calls[c].state = "fulfilled"
  /\ wasmInitialized

\* C12: a render made while isReady() is false (no load started, a load
\* pending, or the load failed) leaves d and visibility as they were;
\* isReady() is true only when a load has succeeded, and once true it stays
\* true.
C12_RenderWaitsForModule ==
  [][/\ (WasmRender /\ ~isReady) => (attrD' = attrD /\ visibility' = visibility)
     /\ isReady' => (\E k \in 1..Len(loads') : loads'[k].stage = "fulfilled")
     /\ isReady => isReady']_vars

\* A render was made while a second load was pending, the first having
\* failed: it recorded the offset and left the element alone.
C12_Witness ==
  /\ ~isReady
  /\ tweenPc = "rendered"
  /\ gsapOffsetPath = Int2Num(10)
  /\ visibility = ""
  /\ attrD = PathSquare
  /\ LoadsInFlight # {}
  /\ \E k \in 1..Len(loads) : loads[k].stage = "rejected"

\* The offset the running tween has at the given progress.
Interpolated(progress) == offsetAmount(data.startOffset, data.endOffset, progress)

\* What a render that computed the outcome r for the offset a must have left.
RenderedAs(a, r) ==
  IF belowThreshold(a)
    THEN visibility' = "visible" /\ attrD' = data.originalPath
  ELSE /\ visibility' \in {"hidden", "visible"}
       /\ visibility' = "hidden" <=> (r.kind = "threw" \/ blank(r.value))
       /\ visibility' = "hidden" => attrD' = attrD
       /\ visibility' = "visible" => attrD' = r.value

\* C13: after every render of the pure-TypeScript plugin, visibility is
\* 'hidden' exactly when offsetSvgPath returned an empty or blank string or
\* threw, and d is then as it was; otherwise visibility is 'visible' and d
\* is the computed string, or the path captured at init when the
\* interpolated offset is below 0.001 in absolute value.  This holds whatever
\* the visibility was before, so a hidden element is shown again by the next
\* render with a non-empty result.
C13_HiddenIffEmpty ==
  [][\A progress \in ProgressInputs :
       (Render(progress) /\ tweenPc' = "rendered") =>
         RenderedAs(Interpolated(progress), computed(data, Interpolated(progress)))]_vars

\* A render whose result was empty has hidden the element and left d alone.
C13_Witness ==
  /\ tweenPc = "rendered"
  /\ visibility = "hidden"
  /\ gsapOffsetPath = Int2Num(10)
  /\ attrD = PathSquare

\* offsetSvgPath of the path str with the running tween's options.
OffsetOf(str, a) ==
  offsetSvgPath(str, a, data.options.joinType, data.options.endType,
                data.options.miterLimit, data.options.arcTolerance,
                data.options.originX, data.options.originY)

\* C15: every tween on an element offsets the same base path: the path each
\* init captures is the d the element had before its first offsetPath tween,
\* so after a render that left the element visible d is offsetSvgPath of that
\* base at the element's __gsapOffsetPath (the base itself below 0.001).
C15_SameBasePath ==
  /\ data # Null => data.originalPath = baseD
  /\ (tweenPc = "rendered" /\ visibility = "visible") =>
       attrD = IF belowThreshold(gsapOffsetPath) THEN baseD
               ELSE OffsetOf(baseD, gsapOffsetPath).value

\* C20: kill writes the path captured at its tween's init back to d and
\* changes nothing else: visibility and __gsapOffsetPath are as before it.
C20_KillRestoresOnlyD ==
  [][(Kill /\ data # Null) =>
       /\ attrD' = data.originalPath
       /\ visibility' = visibility
       /\ gsapOffsetPath' = gsapOffsetPath]_vars

\* A tween that had drawn the offset path at 10 was killed: d is the path
\* its init captured again, and the element still records the offset 10.
C20_Witness ==
  /\ tweenPc = "killed"
  /\ data # Null
  /\ tweenCount = 1
  /\ attrD = PathSquare
  /\ visibility = "visible"
  /\ gsapOffsetPath = Int2Num(10)

\* The deepest subdivision whose vertices the samples of the curve resolve.
MaxDepth == 6

\* The curve is sampled at the parameters j / Resolution: the vertices of a
\* subdivision of depth MaxDepth and the midpoints between them.
Resolution == 2^(MaxDepth + 1)

Cube == Resolution * Resolution * Resolution

\* The Bernstein form of the cubic with the whole control points cv at the
\* parameter j / Resolution, along the axis k, as a numerator over Cube.
bezierNum(cv, j, k) ==
  (Resolution - j) * (Resolution - j) * (Resolution - j) * cv[1][k].n
    + 3 * (Resolution - j) * (Resolution - j) * j * cv[2][k].n
    + 3 * (Resolution - j) * j * j * cv[3][k].n
    + j * j * j * cv[4][k].n

OnCurveAt(cv, v, j) ==
  /\ v[1] = Rat(bezierNum(cv, j, 1), Cube)
  /\ v[2] = Rat(bezierNum(cv, j, 2), Cube)

\* A coordinate of a vertex as a numerator over Cube.
overCube(x) == x.n * (Cube \div x.d)

\* The curve point at j / Resolution minus the point of the chord va -> vb
\* that lies q quarters along it, as a numerator over 4 * Cube.
deviationNum(cv, va, vb, j, q, k) ==
  4 * (bezierNum(cv, j, k) - overCube(va[k]))
    - q * (overCube(vb[k]) - overCube(va[k]))

WScale(u, k) == WNorm(u.hi * k, u.lo * k)

\* u / k rounded down, for u >= 0 and 0 < k < 1000.
WDiv(u, k) ==
  [hi |-> u.hi \div k, lo |-> ((u.hi % k) * 1000000 + u.lo) \div k]

\* (4 * Cube * tol)^2 rounded down.
SquaredLimit(tol) ==
  WDiv(WScale(WMul(Cube, Cube),
              (16 * tol.n * tol.n) \div Gcd(16 * tol.n * tol.n, tol.d * tol.d)),
       (tol.d * tol.d) \div Gcd(16 * tol.n * tol.n, tol.d * tol.d))

\* dx^2 + dy^2 <= tol^2 for the vector (dx, dy) / (4 * Cube).
ShortEnough(dx, dy, tol) ==
  /\ Abs(dx) <= (4 * Cube * tol.n) \div tol.d
  /\ Abs(dy) <= (4 * Cube * tol.n) \div tol.d
  /\ WLeq(WAdd(WMul(Abs(dx), Abs(dx)), WMul(Abs(dy), Abs(dy))), SquaredLimit(tol))

\* The piece of the curve between the parameters a and b (over Resolution)
\* stays within tol of its chord va -> vb at its quarter points.
PieceWithin(cv, va, vb, a, b, tol) ==
  \A q \in 1..3 :
    ((b - a) * q) % 4 = 0 =>
      ShortEnough(deviationNum(cv, va, vb, a + ((b - a) * q) \div 4, q, 1),
                  deviationNum(cv, va, vb, a + ((b - a) * q) \div 4, q, 2), tol)

\* The first sampled parameter after a at which the curve is at v, or
\* Resolution + 1 when there is none.
nextAt(cv, v, a) ==
  IF \E j \in (a + 1)..Resolution : OnCurveAt(cv, v, j)
    THEN CHOOSE j \in (a + 1)..Resolution :
           /\ OnCurveAt(cv, v, j)
           /\ \A h \in (a + 1)..(j - 1) : ~OnCurveAt(cv, v, h)
  ELSE Resolution + 1

\* The vertices line[i..] are points of the curve at increasing parameters,
\* line[i] at the parameter a, the last one at the curve's end, and each
\* piece stays within tol of its chord.
RECURSIVE PiecesWithin(_, _, _, _, _)

PieceThen(cv, line, i, a, b, tol) ==
  /\ b <= Resolution
  /\ OnCurveAt(cv, line[i + 1], b)
  /\ PieceWithin(cv, line[i], line[i + 1], a, b, tol)
  /\ PiecesWithin(cv, line, i + 1, b, tol)

PiecesWithin(cv, line, i, a, tol) ==
  IF i = Len(line) THEN a = Resolution
  ELSE IF i + 1 = Len(line) THEN PieceThen(cv, line, i, a, Resolution, tol)
  ELSE PieceThen(cv, line, i, a, nextAt(cv, line[i + 1], a), tol)

\* C14: the polyline flattenCubic produces with the tolerance 0.1 (p0 followed
\* by the appended points) ends at p3, has its vertices on the curve, and
\* between two vertices the curve is never farther than 0.1 from the chord,
\* for every curve of the grid and in particular for
\* "M 0 0 C 0 50 50 50 50 0".
C14_FlattenWithinTolerance ==
  flat # Null =>
    /\ flat.ok
    /\ Len(flat.pts) >= 1
    /\ flat.pts[Len(flat.pts)] = curve[4]
    /\ PiecesWithin(curve, <<curve[1]>> \o flat.pts, 1, 0, FLATTEN_TOLERANCE)

\* The curve of "M 0 0 C 0 50 50 50 50 0" has been flattened into 32 pieces.
C14_Witness ==
  /\ curve = << <<Int2Num(0), Int2Num(0)>>, <<Int2Num(0), Int2Num(50)>>,
                <<Int2Num(50), Int2Num(50)>>, <<Int2Num(50), Int2Num(0)>> >>
  /\ flat # Null
  /\ Len(flat.pts) = 32

\* The number of vertices the loop of offsetPolygon visits (line 329).
LoopCount == IF isOpenEnd(endType) THEN Len(pts) - 1 ELSE Len(pts)

PrevOf(i) == pts[((i - 2 + Len(pts)) % Len(pts)) + 1]

NextOf(i) == pts[(i % Len(pts)) + 1]

\* What the loop pushes for the vertex i of the call in progress.
EmittedAt(i) ==
  offsetVertex(PrevOf(i), pts[i], NextOf(i), scaledOffset(offsetAmt), joinType,
               miterLimit, arcTolerance)

\* |q - curr| >= r - 1 for whole points.
FarEnough(curr, q, r) ==
  WLeq(WMul(r - 1, r - 1),
       WAdd(WMul(Abs(q[1].n - curr[1].n), Abs(q[1].n - curr[1].n)),
            WMul(Abs(q[2].n - curr[2].n), Abs(q[2].n - curr[2].n))))

AllFarEnough(curr, emitted, r) ==
  \A k \in 1..Len(emitted.pts) : FarEnough(curr, emitted.pts[k], r)

\* |offsetAmt * SCALE|, rounded down.
ScaledDistance == Abs(scaledOffset(offsetAmt).n) \div scaledOffset(offsetAmt).d

\* C16: every point offsetPolygon emits for a vertex lies at least |offset|
\* (scaled, less one unit of rounding) from that vertex, for every polygon of
\* three or more points, consecutive coincident points included.
C16_DisplacedByOffset ==
  (pc = "anchor" /\ ~HasNaN(pts)) =>
    \A i \in 1..LoopCount : AllFarEnough(pts[i], EmittedAt(i), ScaledDistance)

\* The point as far before a as b is after it.
Mirrored(a, b) == <<Int2Num(2 * a[1].n - b[1].n), Int2Num(2 * a[2].n - b[2].n)>>

\* What the loop would push for the first vertex if the point before it lay
\* on the first edge's line, so that only the edge pts[0] -> pts[1] counted.
FirstAlone ==
  offsetVertex(Mirrored(pts[1], pts[2]), pts[1], pts[2], scaledOffset(offsetAmt),
               joinType, miterLimit, arcTolerance)

\* C17: for the Butt, Square and Round end kinds the per-vertex loop leaves
\* out the last point and does not use the wrap-around edge
\* pts[n-1] -> pts[0]: what it emits for the first vertex depends on the first
\* edge alone.
C17_OpenLoopIgnoresWrapEdge ==
  (pc = "anchor" /\ isOpenEnd(endType) /\ ~HasNaN(pts) /\ pts[1] # pts[2]) =>
    /\ LoopCount = Len(pts) - 1
    /\ EmittedAt(1) = FirstAlone

\* cross(e1, e2) * sign(offset) <= 0, or |cross(e1, e2)| < 1e-6.
NotConvex(e1, e2, off) ==
  crossNum(e1, e2) * Sign(off.n) <= 0 \/ crossTiny(e1, e2)

\* The one point of such a corner: it is made from the vertex, its two edges
\* and the offset alone.
CornerPoint(curr, e1, e2, off) ==
  IF sinHalfTiny(bisector(e1, e2), e1.d) THEN alongNormal(curr, leftNormal(e1), off)
  ELSE bisectorPoint(curr, bisector(e1, e2), e1.d, off)

NotConvexAt(i) ==
  NotConvex(norm(PrevOf(i), pts[i]), norm(pts[i], NextOf(i)), scaledOffset(offsetAmt))

\* The points `out` from index j on are what the vertices i..LoopCount give:
\* one point, CornerPoint, at every vertex that is not convex, and as many
\* as the join makes at a convex one.
RECURSIVE CornersMatch(_, _, _)
RECURSIVE CornerMatches(_, _, _, _, _)
CornersMatch(i, out, j) ==
  IF i > LoopCount THEN j = Len(out) + 1
  ELSE CornerMatches(i, out, j, norm(PrevOf(i), pts[i]), norm(pts[i], NextOf(i)))

CornerMatches(i, out, j, e1, e2) ==
  IF NotConvex(e1, e2, scaledOffset(offsetAmt))
  THEN IF j > Len(out) THEN FALSE
       ELSE /\ out[j] = CornerPoint(pts[i], e1, e2, scaledOffset(offsetAmt))
            /\ CornersMatch(i + 1, out, j + 1)
  ELSE CornersMatch(i + 1, out, j + Len(EmittedAt(i).pts))

\* The end kinds for which offsetPts holds the loop's points and no cap.
NoCaps == endType \in {EndType_Polygon, EndType_Joined, EndType_Butt}

\* C18: at every vertex where cross(e1, e2) * sign(offset) <= 0 or
\* |cross(e1, e2)| < 1e-6 the loop emits exactly one point, and that point is
\* the same for the four join kinds and does not depend on miterLimit or
\* arcTolerance.
C18_OnePointWhereNotConvex ==
  (pc = "anchor" /\ NoCaps) => CornersMatch(1, offsetPts, 1)

\* The L-shaped path with bevel joins: one point at a corner that is not
\* convex, two at the convex ones.
C18_Witness ==
  /\ pc = "anchor"
  /\ pathData = PathEll
  /\ joinType = JoinType_Bevel
  /\ endType = EndType_Polygon
  /\ \E i \in 1..Len(pts) : NotConvexAt(i)
  /\ \E i \in 1..Len(pts) : ~NotConvexAt(i)
  /\ Len(offsetPts) > Len(pts)

\* offsetPolygon has run on a polygon of three or more points with a closed
\* end kind, and has returned.
ClosedOffsetDone == pc \in {"anchor", "done"} /\ Len(pts) >= 3 /\ ClosedEnd

\* C19 as stated: with a closed end kind every vertex gives at least one
\* point, for every join kind and every offset that is not negligible, so the
\* result has at least n points and the test of line 457 never returns ''.
C19_AtLeastOnePerVertex ==
  ClosedOffsetDone =>
    /\ Len(offsetPts) >= Len(pts)
    /\ pc = "done" => result # << >>

\* The number of arc steps of addRoundJoin (line 306) is a number:
\* 1 - arcTolerance / |offsetAmt * SCALE| lies in [-1, 1), the domain of acos
\* less the value 1 at which the division is by zero.
StepsDefined ==
  /\ IsFinite(arcTolerance)
  /\ arcTolerance.n > 0
  /\ arcTolerance.n * scaledOffset(offsetAmt).d
       <= 2 * arcTolerance.d * Abs(scaledOffset(offsetAmt).n)

\* Where the number of arc steps is a number, or the join kind is Square,
\* Bevel or Miter, every vertex does give at least one point.
OnePerVertexWithSteps ==
  (ClosedOffsetDone /\ (joinType = JoinType_Round => StepsDefined)) =>
    /\ Len(offsetPts) >= Len(pts)
    /\ pc = "done" => result # << >>

====
